---- MODULE Spec2Model ----
(***************************************************************************)
(* A model of the beat-classification core of the EKG system:              *)
(* ArrhythmiaDetector (src/ekg_system/arrhythmia_detector.py).             *)
(*                                                                         *)
(* Arithmetic.  The code computes in float64; the model computes the same  *)
(* comparisons exactly over the integers by cross-multiplication:          *)
(*   mean(rr) = S/n,  std(rr)^2 = SumSqDev(rr)/n^3  with S = sum(rr),      *)
(*   SumSqDev(rr) = sum_j (n*rr[j] - S)^2.                                 *)
(* The two agree wherever the operands of a comparison differ as real      *)
(* numbers.  Where they are equal, float64 compares what rounding left of  *)
(* them: the outcome is the exact one when the operands are computed       *)
(* without a rounding error or the error can only fall one way, and        *)
(* otherwise it is left open, fixed for a run by fp_round.                 *)
(* RR intervals are differences of a strictly increasing PeakSet, hence    *)
(* integers >= 1.  Python indices are 0-based and are kept in the events;  *)
(* the TLA+ sequence element of Python index i is s[i+1].                  *)
(***************************************************************************)
EXTENDS Integers, Sequences, FiniteSets, TLC

VARIABLES
    sampling_rate,          \* ArrhythmiaDetector.sampling_rate
    tachycardia_threshold,  \* ArrhythmiaDetector.tachycardia_threshold
    bradycardia_threshold,  \* ArrhythmiaDetector.bradycardia_threshold
    rr_intervals,           \* the RR sequence handed to the detector
    peaks,                  \* the peaks argument of the last call (<<>> if it takes none)
    waveforms,              \* the waveforms argument of the last generate_report
    waveform,               \* the waveform handed to classify_waveform
    peak_idx,               \* the peak offset handed to classify_waveform
    op,                     \* the last call made ("none" before any call)
    ret,                    \* what the last call returned (NoValue if it raised)
    raised,                 \* the exception the last call raised ("none" if it returned)
    heart_rates,            \* the local heart_rates of the last call (exact rationals)
    fperr,                  \* the divisions by zero evaluated by the last call
    fp_round,               \* the comparisons that float64 rounding makes come out
                            \* True although their operands are equal as real numbers
    data,                   \* EKGProcessor.data (None or the loaded signal)
    filtered_data,          \* EKGProcessor.filtered_data (None or the conditioned signal)
    processor_peaks,        \* EKGProcessor.peaks (None or the detected peak indices)
    heart_rate,             \* EKGProcessor.heart_rate (None or the statistics)
    window_size,            \* the window_size argument of the last segment_waveforms
    lowcut,                 \* the cutoffs of the last filter_signal call made
    highcut,                \* directly (half-Hz units, 0 before any)
    report,                 \* the report the callers' report step obtained (None if none)
    clock,                  \* datetime.now(), in ticks of 1/TicksPerSecond s
    files,                  \* the *.pkl files of SessionManager.sessions_dir
    saves,                  \* the caller's record of its save_session calls
    deleted,                \* whether delete_session has been called
    session_file,           \* the path the last session call returned or was given
    loaded,                 \* what the last load_session returned (None if none)
    listing,                \* what the last list_sessions returned
    is_connected,           \* MicrocontrollerInterface.is_connected
    is_streaming,           \* MicrocontrollerInterface.is_streaming
    buffer,                 \* MicrocontrollerInterface.buffer
    stream_thread,          \* MicrocontrollerInterface.stream_thread: None or a worker
    workers,                \* the stream_worker threads started so far, by number
    caller_pc,              \* where the calling thread is: "idle", or the call that joins
    join_elapsed,           \* the seconds the caller has waited in join
    device_connected,       \* LivePGView.device_connected
    collecting,             \* LivePGView.collecting
    want_collecting,        \* LivePGView.want_collecting
    status,                 \* the text of LivePGView.status
    button,                 \* the text of LivePGView.button
    view_buffer,            \* LivePGView.buffer
    start_failures          \* how often mcu.start has raised

vars == <<sampling_rate, tachycardia_threshold, bradycardia_threshold,
          rr_intervals, peaks, waveforms, waveform, peak_idx,
          op, ret, raised, heart_rates, fperr,
          data, filtered_data, processor_peaks, heart_rate, window_size,
          lowcut, highcut, report,
          clock, files, saves, deleted, session_file, loaded, listing,
          is_connected, is_streaming, buffer, stream_thread, workers,
          caller_pc, join_elapsed,
          device_connected, collecting, want_collecting, status, button,
          view_buffer, start_failures, fp_round>>

\* the fields of the EKGProcessor and the arguments of its calls
processorVars == <<data, filtered_data, processor_peaks, heart_rate, window_size,
                   lowcut, highcut, report>>

\* the sessions directory of the SessionManager and its caller's bookkeeping
sessionVars == <<clock, files, saves, deleted, session_file, loaded, listing>>

\* the fields of the MicrocontrollerInterface, its worker threads and its caller
streamVars == <<is_connected, is_streaming, buffer, stream_thread, workers,
                caller_pc, join_elapsed>>

\* the fields of the LivePGView, and the failures of its device so far
liveVars == <<device_connected, collecting, want_collecting, status, button,
              view_buffer, start_failures>>

\* what lies outside the analysis core: sessions, the serial stream, the live
\* view, and the rounding of the arithmetic, which no call changes
peripheralVars == <<sessionVars, streamVars, liveVars, fp_round>>

\* the fields of the ArrhythmiaDetector and the arguments of its calls
detectorVars == <<tachycardia_threshold, bradycardia_threshold, waveform, peak_idx,
                  heart_rates, fperr>>

----------------------------------------------------------------------------
(* Bounds of the model *)

MaxLen == 6
MaxPeaks == 3
MaxPeakIdx == 40
MaxRunMult == 4
RunUnit == 10
MaxReportLen == 2
MaxWaveforms == 5
MaxBeats == 5

(* Inputs *)

RRValues == {70, 100, 200}
SamplingRates == {500, 1000}
ThresholdValues == {400, 600, 700}

RECURSIVE SeqsUpTo(_, _)
SeqsUpTo(S, n) ==
    IF n = 0 THEN {<<>>}
    ELSE LET shorter == SeqsUpTo(S, n - 1)
         IN  shorter \cup {Append(s, v) : s \in {t \in shorter : Len(t) = n - 1}, v \in S}

\* with the last interval of 73 the deviation 73 - 70.6 equals 2 * 1.2, twice
\* the standard deviation, and the mean 70.6 is not a float64
RRSequences == SeqsUpTo(RRValues, MaxLen) \cup {<<70, 70, 70, 70, 73>>}

\* Waveforms are piecewise constant: up to three runs of samples, each run at one
\* of the Levels and RunUnit * k samples long, k in 0..MaxRunMult.
Levels == {-1, 0, 1}
RunLens == {RunUnit * k : k \in 0..MaxRunMult}

Run(len, v) == [k \in 1..len |-> v]

Waveforms ==
    {Run(h, a) \o Run(m, b) \o Run(t, c) :
        <<h, m, t>> \in RunLens \X RunLens \X RunLens,
        <<a, b, c>> \in Levels \X Levels \X Levels}

\* A strictly increasing PeakSet of n peaks; the detector reads only its length.
PeakSetOfLen(n) == [k \in 1..n |-> 100 * k]

----------------------------------------------------------------------------
(* Program constants *)

DefaultTachycardiaThreshold == 700
DefaultBradycardiaThreshold == 400

TACHYCARDIA == "Tachycardia"
BRADYCARDIA == "Bradycardia"
IRREGULAR == "Irregular Rhythm"
PREMATURE_BEAT == "Premature Beat"
PAUSE == "Pause/Block"

WAVE_NORMAL == "Normal"
WIDE_QRS == "Wide QRS"
ELEVATED_ST == "ST Elevation"
DEPRESSED_ST == "ST Depression"
INVERTED_T == "T-wave Inversion"

NoValue == "None"

\* an attribute that may be None: None is <<>>, a value v is <<v>>
None == <<>>

Some(v) == <<v>>

IsNone(o) == o = <<>>

ValueOf(o) == o[1]

\* no session manager in use: an empty directory, no call made
SessionIdle ==
    /\ clock = 0
    /\ files = {}
    /\ saves = <<>>
    /\ deleted = FALSE
    /\ session_file = None
    /\ loaded = None
    /\ listing = <<>>

\* the samples the live plot holds: int(fs * window_sec), scaled down
PlotSamples == 3

PeripheralsIdle ==
    /\ SessionIdle
    /\ is_connected = FALSE
    /\ is_streaming = FALSE
    /\ buffer = <<>>
    /\ stream_thread = None
    /\ workers = <<>>
    /\ caller_pc = "idle"
    /\ join_elapsed = 0
    /\ device_connected = FALSE
    /\ collecting = FALSE
    /\ want_collecting = FALSE
    /\ status = "Waiting for device"
    /\ button = "Start Collecting"
    /\ view_buffer = [k \in 1..PlotSamples |-> 0]
    /\ start_failures = 0

----------------------------------------------------------------------------
(* Helpers *)

\* the sum of s[a..b], by halving
RECURSIVE SumRange(_, _, _)
SumRange(s, a, b) ==
    IF a > b THEN 0
    ELSE IF a = b THEN s[a]
    ELSE LET m == (a + b) \div 2
         IN  SumRange(s, a, m) + SumRange(s, m + 1, b)

SeqSum(s) == SumRange(s, 1, Len(s))

Sq(x) == x * x

RECURSIVE Gcd(_, _)
Gcd(a, b) == IF b = 0 THEN a ELSE Gcd(b, a % b)

\* num / den (den > 0) is a float64: in lowest terms its denominator is a power
\* of two (the magnitudes of the model are far below 2^53)
Representable(num, den) ==
    LET d == den \div Gcd(IF num < 0 THEN -num ELSE num, den)
    IN  \E k \in 0..30 : d = 2 ^ k

Max(a, b) == IF a >= b THEN a ELSE b

Min(a, b) == IF a <= b THEN a ELSE b

\* the maximum of s[a..b], a <= b, by halving
RECURSIVE MaxRange(_, _, _)
MaxRange(s, a, b) ==
    IF a = b THEN s[a]
    ELSE LET m == (a + b) \div 2
         IN  Max(MaxRange(s, a, m), MaxRange(s, m + 1, b))

SeqMax(s) == MaxRange(s, 1, Len(s))

\* Python s[a:b] for 0 <= a and 0 <= b
Slice(s, a, b) == SubSeq(s, a + 1, Min(b, Len(s)))

RECURSIVE Flatten(_)
Flatten(ss) == IF ss = <<>> THEN <<>> ELSE ss[1] \o Flatten(Tail(ss))

----------------------------------------------------------------------------
(* ArrhythmiaDetector.analyze_rhythm *)

Event(kind, i) == [kind |-> kind, idx |-> i]

\* the kinds of the events of a list
KindsIn(events) == {events[k].kind : k \in DOMAIN events}

\* a slip: the rate conversion hard-codes 1000 Hz instead of self.sampling_rate
HeartRate_Fixed1000(sr, x) == [num |-> 60 * 1000, den |-> x]

\* 60.0 * self.sampling_rate / rr for one interval rr = x, as the exact rational num/den
HeartRate(sr, x) == [num |-> 60 * sr, den |-> x]

\* heart_rates = 60.0 * self.sampling_rate / rr_intervals
HeartRates(sr, rr) == [k \in 1..Len(rr) |-> HeartRate(sr, rr[k])]

\* a slip: the tachycardia comparison reversed
HrAbove_Reversed(hr, threshold) == hr.num < threshold * hr.den

\* hr > threshold and hr < threshold for hr = num/den, den > 0
HrAbove(hr, threshold) == hr.num > threshold * hr.den

HrBelow(hr, threshold) == hr.num < threshold * hr.den

\* n^3 * np.std(rr)^2, with n = len(rr)
SumSqDev(rr) ==
    LET n == Len(rr)
        S == SeqSum(rr)
    IN  SeqSum([k \in 1..n |-> Sq(n * rr[k] - S)])

\* a slip: `if` in place of `elif`, the two rate rules applied independently
RateEvents_Independent(hr, i, tachy, brady) ==
    (IF hr.num > tachy * hr.den THEN <<Event(TACHYCARDIA, i)>> ELSE <<>>)
    \o (IF hr.num < brady * hr.den THEN <<Event(BRADYCARDIA, i)>> ELSE <<>>)

\* if hr > tachycardia_threshold: ... elif hr < bradycardia_threshold: ...
RateEvents(hr, i, tachy, brady) ==
    IF HrAbove(hr, tachy) THEN <<Event(TACHYCARDIA, i)>>
    ELSE IF HrBelow(hr, brady) THEN <<Event(BRADYCARDIA, i)>>
    ELSE <<>>

\* abs(rr - rr_mean) > 2 * rr_std, for rr = x, rr_mean = S/n, rr_std^2 = D/n^3.
\* When the two sides are equal and rr_mean is a float64, so are the deviations,
\* their squares and rr_std: float64 finds them equal too.  When rr_mean is
\* rounded, rounding decides, one way for the intervals above the mean and one
\* way for those below.
IsIrregular(x, n, S, D) ==
    LET deviation == n * Sq(n * x - S)
    IN  IF deviation = 4 * D
        THEN /\ ~Representable(S, n)
             /\ (IF n * x > S THEN "irregular_above" ELSE "irregular_below") \in fp_round
        ELSE deviation > 4 * D

\* a slip: the guard off by one, `i < len(rr_intervals)`
PrematureGuard_OffByOne(i, n) == i < n

\* if i < len(rr_intervals) - 1:
PrematureGuard(i, n) == i < n - 1

\* a slip: the comparison of the premature rule reversed, rr > 0.7 * rr_mean
IsShort_Reversed(x, n, S) == 10 * n * x > 7 * S

\* rr < 0.7 * rr_mean, for rr = x, rr_mean = S/n
IsShort(x, n, S) == 10 * n * x < 7 * S

\* rr_intervals[i + 1] > 1.3 * rr_mean, for rr_intervals[i + 1] = y, rr_mean = S/n
IsLong(y, n, S) == 10 * n * y > 13 * S

\* the right operand of `and` is evaluated, reading rr_intervals[i + 1]
ReadsNext(rr, i) == PrematureGuard(i, Len(rr)) /\ IsShort(rr[i + 1], Len(rr), SeqSum(rr))

\* if i < len(rr) - 1: if rr < 0.7 * rr_mean and rr_intervals[i + 1] > 1.3 * rr_mean
IsPremature(rr, i, S) ==
    /\ PrematureGuard(i, Len(rr))
    /\ IsShort(rr[i + 1], Len(rr), S)
    /\ (i + 2) \in DOMAIN rr
    /\ IsLong(rr[i + 2], Len(rr), S)

\* rr > 1.5 * rr_mean, for rr = x, rr_mean = S/n
IsPause(x, n, S) == 2 * n * x > 3 * S

\* a slip: the irregularity rule moved ahead of the rate rules
IntervalEvents_IrregularFirst(sr, tachy, brady, rr, i, S, D) ==
    (IF IsIrregular(rr[i + 1], Len(rr), S, D) THEN <<Event(IRREGULAR, i)>> ELSE <<>>)
    \o RateEvents(HeartRate(sr, rr[i + 1]), i, tachy, brady)
    \o (IF IsPremature(rr, i, S) THEN <<Event(PREMATURE_BEAT, i)>> ELSE <<>>)
    \o (IF IsPause(rr[i + 1], Len(rr), S) THEN <<Event(PAUSE, i)>> ELSE <<>>)

\* the events the loop body appends for interval i, in program order
IntervalEvents(sr, tachy, brady, rr, i, S, D) ==
    RateEvents(HeartRate(sr, rr[i + 1]), i, tachy, brady)
    \o (IF IsIrregular(rr[i + 1], Len(rr), S, D) THEN <<Event(IRREGULAR, i)>> ELSE <<>>)
    \o (IF IsPremature(rr, i, S) THEN <<Event(PREMATURE_BEAT, i)>> ELSE <<>>)
    \o (IF IsPause(rr[i + 1], Len(rr), S) THEN <<Event(PAUSE, i)>> ELSE <<>>)

analyze_rhythm(sr, tachy, brady, rr) ==
    LET S == SeqSum(rr)
        D == SumSqDev(rr)
    IN  Flatten([k \in 1..Len(rr) |-> IntervalEvents(sr, tachy, brady, rr, k - 1, S, D)])

\* rr_intervals[i + 1] read past the end of the array raises IndexError
AnalyzeRaises(rr) ==
    IF \E i \in 0..(Len(rr) - 1) : ReadsNext(rr, i) /\ i + 1 > Len(rr) - 1
    THEN "IndexError" ELSE "none"

\* the divisions with a zero divisor that analyze_rhythm evaluates:
\*   "heart_rates"  60.0 * sampling_rate / rr_intervals with a zero interval
\*   "rr_mean"      np.mean / np.std of an empty array (0/0, NaN)
\*   "deviation"    abs(rr - rr_mean) / rr_std in the IRREGULAR description
AnalyzeFpErr(rr) ==
    LET S == SeqSum(rr)
        D == SumSqDev(rr)
    IN  {"heart_rates" : k \in {j \in 1..Len(rr) : rr[j] = 0}}
        \cup (IF Len(rr) = 0 THEN {"rr_mean"} ELSE {})
        \cup {"deviation" : k \in {j \in 1..Len(rr) :
                                     IsIrregular(rr[j], Len(rr), S, D) /\ D = 0}}

----------------------------------------------------------------------------
(* ArrhythmiaDetector.label_beats *)

\* a slip: the first matching event wins, later ones do not overwrite the label
RECURSIVE ApplyLabels_FirstWins(_, _)
ApplyLabels_FirstWins(labels, events) ==
    IF events = <<>> THEN labels
    ELSE LET e == Head(events)
         IN  ApplyLabels_FirstWins(IF e.idx < Len(labels) /\ labels[e.idx + 1] = "Normal"
                                   THEN [labels EXCEPT ![e.idx + 1] = e.kind]
                                   ELSE labels,
                                   Tail(events))

\* for arr_type, idx, _ in arrhythmias: if idx < len(labels): labels[idx] = arr_type.value
RECURSIVE ApplyLabels(_, _)
ApplyLabels(labels, events) ==
    IF events = <<>> THEN labels
    ELSE LET e == Head(events)
         IN  ApplyLabels(IF e.idx < Len(labels)
                         THEN [labels EXCEPT ![e.idx + 1] = e.kind]
                         ELSE labels,
                         Tail(events))

\* a slip: the event of interval i labels the beat that ends the interval
label_beats_Shifted(sr, tachy, brady, pks, rr) ==
    LET events == analyze_rhythm(sr, tachy, brady, rr)
    IN  ApplyLabels([k \in 1..Len(pks) |-> "Normal"],
                    [k \in 1..Len(events) |-> Event(events[k].kind, events[k].idx + 1)])

label_beats(sr, tachy, brady, pks, rr) ==
    ApplyLabels([k \in 1..Len(pks) |-> "Normal"], analyze_rhythm(sr, tachy, brady, rr))

----------------------------------------------------------------------------
(* The detector under calls: rhythm analysis *)

InitRhythm ==
    /\ sampling_rate \in SamplingRates
    /\ tachycardia_threshold = DefaultTachycardiaThreshold
    /\ bradycardia_threshold = DefaultBradycardiaThreshold
    /\ rr_intervals \in RRSequences
    /\ peaks = <<>>
    /\ waveforms = <<>>
    /\ waveform = <<>>
    /\ peak_idx = 0
    /\ op = "none"
    /\ ret = NoValue
    /\ raised = "none"
    /\ heart_rates = <<>>
    /\ fperr = {}
    \* rounding is open for the intervals at exactly twice the standard deviation
    \* from a mean that is not a float64
    /\ fp_round \in SUBSET
          LET n == Len(rr_intervals)
              S == SeqSum(rr_intervals)
              D == SumSqDev(rr_intervals)
          IN  IF n = 0 \/ Representable(S, n) THEN {}
              ELSE {IF n * rr_intervals[k] > S
                    THEN "irregular_above" ELSE "irregular_below" :
                        k \in {j \in DOMAIN rr_intervals :
                                 n * Sq(n * rr_intervals[j] - S) = 4 * D}}
    /\ data = None
    /\ filtered_data = None
    /\ processor_peaks = None
    /\ heart_rate = None
    /\ window_size = 0
    /\ lowcut = 0
    /\ highcut = 0
    /\ report = None
    /\ PeripheralsIdle

\* detector.tachycardia_threshold = t; detector.bradycardia_threshold = b
SetThresholds ==
    \E t \in ThresholdValues, b \in ThresholdValues :
        /\ tachycardia_threshold' = t
        /\ bradycardia_threshold' = b
        /\ op' = "none"
        /\ ret' = NoValue
        /\ raised' = "none"
        /\ heart_rates' = <<>>
        /\ fperr' = {}
        /\ peaks' = <<>>
        /\ UNCHANGED <<sampling_rate, rr_intervals, waveforms, waveform, peak_idx>>
        /\ UNCHANGED processorVars
        /\ UNCHANGED peripheralVars

AnalyzeRhythm ==
    /\ op' = "analyze_rhythm"
    /\ peaks' = <<>>
    /\ raised' = AnalyzeRaises(rr_intervals)
    /\ ret' = IF raised' = "none"
              THEN analyze_rhythm(sampling_rate, tachycardia_threshold,
                                  bradycardia_threshold, rr_intervals)
              ELSE NoValue
    /\ heart_rates' = HeartRates(sampling_rate, rr_intervals)
    /\ fperr' = AnalyzeFpErr(rr_intervals)
    /\ UNCHANGED <<sampling_rate, tachycardia_threshold, bradycardia_threshold,
                   rr_intervals, waveforms, waveform, peak_idx>>
    /\ UNCHANGED processorVars
    /\ UNCHANGED peripheralVars

LabelBeats ==
    \E n \in 0..MaxPeaks :
        /\ op' = "label_beats"
        /\ peaks' = PeakSetOfLen(n)
        /\ raised' = AnalyzeRaises(rr_intervals)
        /\ ret' = IF raised' = "none"
                  THEN label_beats(sampling_rate, tachycardia_threshold,
                                   bradycardia_threshold, peaks', rr_intervals)
                  ELSE NoValue
        /\ heart_rates' = HeartRates(sampling_rate, rr_intervals)
        /\ fperr' = AnalyzeFpErr(rr_intervals)
        /\ UNCHANGED <<sampling_rate, tachycardia_threshold, bradycardia_threshold,
                       rr_intervals, waveforms, waveform, peak_idx>>
        /\ UNCHANGED processorVars
        /\ UNCHANGED peripheralVars

NextRhythm == SetThresholds \/ AnalyzeRhythm \/ LabelBeats

SpecRhythm == InitRhythm /\ [][NextRhythm]_vars

----------------------------------------------------------------------------
(* ArrhythmiaDetector.classify_waveform, for peak_idx >= 0 *)

\* a slip: a QRS window of 20 samples either side of the peak
QrsWidth_Narrow(len, p) == Min(len, p + 20) - Max(0, p - 20)

\* qrs_end - qrs_start
QrsWidth(len, p) == Min(len, p + 30) - Max(0, p - 30)

\* a slip: >= in place of > in the ST elevation test
StElevated_NonStrict(Ss, ns, Sb, nb, mx) == 10 * (Ss * nb - Sb * ns) >= mx * ns * nb

\* st_shift and 0.1 * np.max(waveform), or its negative, are equal as real
\* numbers and float64 finds them equal or on the far side of the comparison:
\* both are 0; or the maximum is positive, where the float64 0.1 lies above 1/10
\* and so does its product, and st_shift carries no rounding error of its own
\* (a zero baseline, or both means float64s)
StTieDecided(Ss, ns, Sb, nb, mx) ==
    \/ mx = 0
    \/ mx > 0 /\ (Sb = 0 \/ (Representable(Ss, ns) /\ Representable(Sb, nb)))

\* np.mean(st) - baseline > 0.1 * np.max(waveform), with np.mean(st) = Ss/ns,
\* baseline = Sb/nb and np.max(waveform) = mx
StElevated(Ss, ns, Sb, nb, mx) ==
    IF 10 * (Ss * nb - Sb * ns) = mx * ns * nb /\ ~StTieDecided(Ss, ns, Sb, nb, mx)
    THEN "st_elevated" \in fp_round
    ELSE 10 * (Ss * nb - Sb * ns) > mx * ns * nb

\* np.mean(st) - baseline < -0.1 * np.max(waveform)
StDepressed(Ss, ns, Sb, nb, mx) ==
    IF 10 * (Ss * nb - Sb * ns) = -(mx * ns * nb) /\ ~StTieDecided(Ss, ns, Sb, nb, mx)
    THEN "st_depressed" \in fp_round
    ELSE 10 * (Ss * nb - Sb * ns) < -(mx * ns * nb)

\* np.mean(t) < -0.05 * np.max(waveform), with np.mean(t) = St/nt.  When the two
\* sides are equal and the maximum is not negative, the float64 product is at
\* or below np.mean(t); under a negative maximum rounding decides.
TInverted(St, nt, mx) ==
    IF 20 * St = -(mx * nt) /\ mx < 0
    THEN "t_inverted" \in fp_round
    ELSE 20 * St < -(mx * nt)

\* the ST-segment check: the kind it returns, or NoValue when it falls through
StCheck(w, p) ==
    LET st_start == p + 30
        st_end == Min(Len(w), p + 60)
        st == Slice(w, st_start, st_end)
        base == Slice(w, 0, Max(1, p - 50))
        mx == SeqMax(w)
    IN  IF st_end > st_start
        THEN IF StElevated(SeqSum(st), Len(st), SeqSum(base), Len(base), mx)
             THEN ELEVATED_ST
             ELSE IF StDepressed(SeqSum(st), Len(st), SeqSum(base), Len(base), mx)
                  THEN DEPRESSED_ST
                  ELSE NoValue
        ELSE NoValue

\* the T-wave check: the kind it returns, or NoValue when it falls through
TCheck(w, p) ==
    LET t_start == p + 60
        t_end == Min(Len(w), p + 120)
        t == Slice(w, t_start, t_end)
    IN  IF t_end > t_start /\ TInverted(SeqSum(t), Len(t), SeqMax(w))
        THEN INVERTED_T
        ELSE NoValue

\* a slip: the length check at the top left out
classify_waveform_NoLengthCheck(w, p) ==
    IF QrsWidth(Len(w), p) > 40 THEN WIDE_QRS
    ELSE IF StCheck(w, p) # NoValue THEN StCheck(w, p)
    ELSE IF TCheck(w, p) # NoValue THEN TCheck(w, p)
    ELSE WAVE_NORMAL

\* a slip: the T-wave check ahead of the ST check
classify_waveform_TFirst(w, p) ==
    IF Len(w) < p + 50 THEN WAVE_NORMAL
    ELSE IF QrsWidth(Len(w), p) > 40 THEN WIDE_QRS
    ELSE IF TCheck(w, p) # NoValue THEN TCheck(w, p)
    ELSE IF StCheck(w, p) # NoValue THEN StCheck(w, p)
    ELSE WAVE_NORMAL

classify_waveform(w, p) ==
    IF Len(w) < p + 50 THEN WAVE_NORMAL
    ELSE IF QrsWidth(Len(w), p) > 40 THEN WIDE_QRS
    ELSE IF StCheck(w, p) # NoValue THEN StCheck(w, p)
    ELSE IF TCheck(w, p) # NoValue THEN TCheck(w, p)
    ELSE WAVE_NORMAL

----------------------------------------------------------------------------
(* The detector under calls: waveform classification *)

InitWaveform ==
    /\ sampling_rate = 1000
    /\ tachycardia_threshold = DefaultTachycardiaThreshold
    /\ bradycardia_threshold = DefaultBradycardiaThreshold
    /\ rr_intervals = <<>>
    /\ peaks = <<>>
    /\ waveforms = <<>>
    /\ waveform \in Waveforms
    /\ peak_idx \in 0..MaxPeakIdx
    /\ op = "none"
    /\ ret = NoValue
    /\ raised = "none"
    /\ heart_rates = <<>>
    /\ fperr = {}
    \* rounding is open where the ST shift or the T mean of this waveform is
    \* exactly at its threshold and StTieDecided, or a maximum >= 0, does not settle it
    /\ fp_round \in SUBSET
          LET st == Slice(waveform, peak_idx + 30, Min(Len(waveform), peak_idx + 60))
              base == Slice(waveform, 0, Max(1, peak_idx - 50))
              t == Slice(waveform, peak_idx + 60, Min(Len(waveform), peak_idx + 120))
              mx == SeqMax(waveform)
              shift == 10 * (SeqSum(st) * Len(base) - SeqSum(base) * Len(st))
              open == /\ st # <<>>
                      /\ ~StTieDecided(SeqSum(st), Len(st), SeqSum(base), Len(base), mx)
          IN  {c \in {"st_elevated"} : open /\ shift = mx * Len(st) * Len(base)}
              \cup {c \in {"st_depressed"} : open /\ shift = -(mx * Len(st) * Len(base))}
              \cup {c \in {"t_inverted"} :
                       t # <<>> /\ mx < 0 /\ 20 * SeqSum(t) = -(mx * Len(t))}
    /\ data = None
    /\ filtered_data = None
    /\ processor_peaks = None
    /\ heart_rate = None
    /\ window_size = 0
    /\ lowcut = 0
    /\ highcut = 0
    /\ report = None
    /\ PeripheralsIdle

ClassifyWaveform ==
    /\ op' = "classify_waveform"
    /\ ret' = classify_waveform(waveform, peak_idx)
    /\ raised' = "none"
    /\ UNCHANGED <<sampling_rate, tachycardia_threshold, bradycardia_threshold,
                   rr_intervals, peaks, waveforms, waveform, peak_idx,
                   heart_rates, fperr>>
    /\ UNCHANGED processorVars
    /\ UNCHANGED peripheralVars

NextWaveform == ClassifyWaveform

SpecWaveform == InitWaveform /\ [][NextWaveform]_vars

----------------------------------------------------------------------------
(* ArrhythmiaDetector.generate_report *)

Lcm(a, b) == (a \div Gcd(a, b)) * b

RECURSIVE LcmOf(_)
LcmOf(s) == IF s = <<>> THEN 1 ELSE Lcm(s[1], LcmOf(Tail(s)))

\* a slip: the peak taken to be at the start of the waveform
ReportWindowSize_Start(wfs) == 0

\* window_size = len(waveforms[0]) // 2 if waveforms else 100
ReportWindowSize(wfs) == IF wfs # <<>> THEN Len(wfs[1]) \div 2 ELSE 100

\* for i, wf in enumerate(waveforms): the (i, wf_type) with wf_type != NORMAL
WaveformClassifications(wfs) ==
    LET ws == ReportWindowSize(wfs)
    IN  SelectSeq([i \in 1..Len(wfs) |->
                     [beat_number |-> i - 1, type |-> classify_waveform(wfs[i], ws)]],
                  LAMBDA d : d.type # WAVE_NORMAL)

\* arrhythmia_counts: for each kind that occurs, how many events have it
ArrhythmiaCounts(events) ==
    [kind \in KindsIn(events) |-> Cardinality({j \in DOMAIN events : events[j].kind = kind})]

\* np.mean(heart_rates) for heart_rates[k] = 60*sr/rr[k], as the exact rational
\* over the common denominator len(rr) * lcm(rr)
MeanRate(sr, rr) ==
    LET L == LcmOf(rr)
    IN  [num |-> 60 * sr * SeqSum([k \in 1..Len(rr) |-> L \div rr[k]]),
         den |-> Len(rr) * L]

\* np.min(heart_rates) and np.max(heart_rates)
MinRate(rates) ==
    CHOOSE r \in {rates[k] : k \in DOMAIN rates} :
        \A k \in DOMAIN rates : r.num * rates[k].den <= rates[k].num * r.den

MaxRate(rates) ==
    CHOOSE r \in {rates[k] : k \in DOMAIN rates} :
        \A k \in DOMAIN rates : r.num * rates[k].den >= rates[k].num * r.den

\* np.min of an empty array raises ValueError while the result dictionary is built
ReportRaises(rr) == IF Len(rr) = 0 THEN "ValueError" ELSE AnalyzeRaises(rr)

\* the divisions with a zero divisor that generate_report evaluates: those of
\* analyze_rhythm (line 131), then, for an empty rr_intervals, while the
\* dictionary is built and before np.min raises:
\*   "mean_heart_rate"  np.mean(heart_rates) of an empty array (line 152)
\*   "hr_std"           np.std(heart_rates) of an empty array (line 153)
ReportFpErr(rr) ==
    AnalyzeFpErr(rr)
        \cup (IF Len(rr) = 0 THEN {"mean_heart_rate", "hr_std"} ELSE {})

\* a slip: the beats counted from the waveforms instead of the peaks
generate_report_BeatsFromWaveforms(sr, tachy, brady, rr, wfs, pks) ==
    LET arrhythmias == analyze_rhythm(sr, tachy, brady, rr)
        waveform_classifications == WaveformClassifications(wfs)
        rates == HeartRates(sr, rr)
    IN  [total_beats |-> Len(wfs),
         mean_heart_rate |-> MeanRate(sr, rr),
         hr_std |-> [std_of |-> rates],
         min_heart_rate |-> MinRate(rates),
         max_heart_rate |-> MaxRate(rates),
         arrhythmias_detected |-> Len(arrhythmias),
         arrhythmia_counts |-> ArrhythmiaCounts(arrhythmias),
         arrhythmia_details |->
             [k \in DOMAIN arrhythmias |->
                 [type |-> arrhythmias[k].kind, beat_number |-> arrhythmias[k].idx]],
         abnormal_waveforms |-> Len(waveform_classifications),
         waveform_details |-> waveform_classifications]

\* the dictionary generate_report returns, for a non-empty rr.  hr_std, the
\* population standard deviation of heart_rates, is irrational in general and is
\* carried as the rates it is the deviation of.
generate_report(sr, tachy, brady, rr, wfs, pks) ==
    LET arrhythmias == analyze_rhythm(sr, tachy, brady, rr)
        waveform_classifications == WaveformClassifications(wfs)
        rates == HeartRates(sr, rr)
    IN  [total_beats |-> Len(pks),
         mean_heart_rate |-> MeanRate(sr, rr),
         hr_std |-> [std_of |-> rates],
         min_heart_rate |-> MinRate(rates),
         max_heart_rate |-> MaxRate(rates),
         arrhythmias_detected |-> Len(arrhythmias),
         arrhythmia_counts |-> ArrhythmiaCounts(arrhythmias),
         arrhythmia_details |->
             [k \in DOMAIN arrhythmias |->
                 [type |-> arrhythmias[k].kind, beat_number |-> arrhythmias[k].idx]],
         abnormal_waveforms |-> Len(waveform_classifications),
         waveform_details |-> waveform_classifications]

----------------------------------------------------------------------------
(* The detector under calls: report generation *)

\* the waveforms handed to generate_report: a short flat one and a longer one
\* whose samples after the QRS window lie below the baseline
ReportWaveforms == {Run(20, 0), Run(40, 0) \o Run(60, -1)}

InitReport ==
    /\ sampling_rate = 1000
    /\ tachycardia_threshold = DefaultTachycardiaThreshold
    /\ bradycardia_threshold = DefaultBradycardiaThreshold
    /\ rr_intervals \in SeqsUpTo(RRValues, MaxReportLen)
    /\ peaks = <<>>
    /\ waveforms \in SeqsUpTo(ReportWaveforms, MaxWaveforms)
    /\ waveform = <<>>
    /\ peak_idx = 0
    /\ op = "none"
    /\ ret = NoValue
    /\ raised = "none"
    /\ heart_rates = <<>>
    /\ fperr = {}
    \* the rounding of no comparison on these intervals and waveforms is open
    /\ fp_round = {}
    /\ data = None
    /\ filtered_data = None
    /\ processor_peaks = None
    /\ heart_rate = None
    /\ window_size = 0
    /\ lowcut = 0
    /\ highcut = 0
    /\ report = None
    /\ PeripheralsIdle

GenerateReport ==
    \E n \in 0..MaxBeats :
        /\ op' = "generate_report"
        /\ peaks' = PeakSetOfLen(n)
        /\ raised' = ReportRaises(rr_intervals)
        /\ ret' = IF raised' = "none"
                  THEN generate_report(sampling_rate, tachycardia_threshold,
                                       bradycardia_threshold, rr_intervals,
                                       waveforms, peaks')
                  ELSE NoValue
        /\ heart_rates' = HeartRates(sampling_rate, rr_intervals)
        /\ fperr' = ReportFpErr(rr_intervals)
        /\ UNCHANGED <<sampling_rate, tachycardia_threshold, bradycardia_threshold,
                       rr_intervals, waveforms, waveform, peak_idx>>
        /\ UNCHANGED processorVars
        /\ UNCHANGED peripheralVars

NextReport == GenerateReport

SpecReport == InitReport /\ [][NextReport]_vars

----------------------------------------------------------------------------
(* EKGProcessor *)

\* Signals are pulse trains: 0 everywhere except at the pulse positions, where
\* the sample is the pulse's height.  Positions are 0-based sample indices.
PulseHeight(q) == IF q \in {40, 120} THEN 2 ELSE 1

PulseTrain(n, P) == [k \in 1..n |-> IF (k - 1) \in P THEN PulseHeight(k - 1) ELSE 0]

\* a pulse train with a negative T wave 70 to 90 samples after each pulse
TWaveTrain(n, P) ==
    [k \in 1..n |-> IF (k - 1) \in P THEN 2
                    ELSE IF \E q \in P : (k - 1) - q \in 70..90 THEN -1
                    ELSE 0]

Signals ==
    {PulseTrain(20, {10}),
     PulseTrain(100, {40}),
     PulseTrain(100, {10, 40, 80}),
     PulseTrain(180, {40, 120}),
     PulseTrain(180, {80, 120, 160})}

\* the signals given to process_file and to demo_visualization: long enough for
\* the default window, with and without negative T waves, with two peaks and
\* with one
PipelineSignals ==
    {TWaveTrain(190, {50, 120}),
     PulseTrain(190, {50, 120}),
     TWaveTrain(440, {40, 230}),
     PulseTrain(440, {40, 230}),
     PulseTrain(440, {40}),
     PulseTrain(190, {50})}

AllSignals == Signals \cup PipelineSignals

ProcessorRates == {200, 1000}

\* Cutoff frequencies are carried in half-Hz units (1 is 0.5 Hz, 200 is 100 Hz).
DefaultLowcut == 1
DefaultHighcut == 200

FilterArgs == {<<DefaultLowcut, DefaultHighcut>>, <<1, 80>>, <<80, 1>>, <<1, 1200>>}

\* (height_threshold, distance) of detect_r_peaks: both None, or both given
DetectArgs == {<<None, None>>, <<Some(2), Some(1)>>}

DefaultWindowSize == 200

WindowSizes == {0, 10, 50, DefaultWindowSize}

\* signal.filtfilt pads the signal by 3 * max(len(a), len(b)) samples at each
\* end, 27 for the order-4 band-pass, and needs more samples than that
PadLen == 27

\* a slip: the cutoffs normalised by the sampling rate instead of the Nyquist
\* frequency
ButterRaises_BySamplingRate(sr, lo, hi) ==
    \/ lo <= 0
    \/ hi <= 0
    \/ ~(lo < hi)
    \/ lo >= 2 * sr
    \/ hi >= 2 * sr

\* signal.butter(4, [low, high], btype='band') with low = lowcut / nyquist and
\* high = highcut / nyquist rejects critical frequencies that are not
\* 0 < low < high < 1; in half-Hz units low = lowcut / sampling_rate.
ButterRaises(sr, lo, hi) ==
    \/ lo <= 0
    \/ hi <= 0
    \/ ~(lo < hi)
    \/ lo >= sr
    \/ hi >= sr

\* signal.filtfilt(b, a, self.data) rejects a signal no longer than the padding
FiltfiltRaises(x) == Len(x) <= PadLen

\* what filter_signal raises ("none" when it returns)
FilterRaises(d, sr, lo, hi) ==
    IF IsNone(d) THEN "ValueError"
    ELSE IF ButterRaises(sr, lo, hi) THEN "ValueError"
    ELSE IF FiltfiltRaises(ValueOf(d)) THEN "ValueError"
    ELSE "none"

\* the arrays signal.filtfilt can return for the signal x: zero-phase filtering
\* keeps the length; the sample values of the conditioned signal are left open
ConditionedSignals(x) == {y \in AllSignals : Len(y) = Len(x)}

RECURSIVE SortedSeq(_)
SortedSeq(S) ==
    IF S = {} THEN <<>>
    ELSE LET m == CHOOSE x \in S : \A y \in S : x <= y
         IN  <<m>> \o SortedSeq(S \ {m})

\* np.diff(peaks)
Diff(pks) == [k \in 1..(Len(pks) - 1) |-> pks[k + 1] - pks[k]]

\* signal.find_peaks, local maxima: i_ahead after scanning the plateau that
\* starts at sample i (0-based)
RECURSIVE PlateauAhead(_, _, _)
PlateauAhead(x, i, i_ahead) ==
    IF i_ahead < Len(x) - 1 /\ x[i_ahead + 1] = x[i + 1]
    THEN PlateauAhead(x, i, i_ahead + 1)
    ELSE i_ahead

\* the midpoints of the plateaus that rise on the left and fall on the right;
\* the first and the last sample are never peaks
LocalMaxima(x) ==
    {(i + PlateauAhead(x, i, i + 1) - 1) \div 2 :
        i \in {j \in 1..(Len(x) - 2) :
                 /\ x[j] < x[j + 1]
                 /\ x[PlateauAhead(x, j, j + 1) + 1] < x[j + 1]}}

\* v >= np.mean(x) + 0.5 * np.std(x), with n = len(x), S = sum(x) and
\* D = n^3 * np.std(x)^2.  When the two sides are equal and np.mean(x) is a
\* float64, so are np.std(x) and the threshold: float64 finds them equal too.
\* When np.mean(x) is rounded, rounding decides.
ClearsAutoThreshold(v, n, S, D) ==
    IF n * v - S >= 0 /\ 4 * n * Sq(n * v - S) = D /\ ~Representable(S, n)
    THEN "height_threshold" \in fp_round
    ELSE n * v - S >= 0 /\ 4 * n * Sq(n * v - S) >= D

\* the peaks whose height is at least height_threshold
HeightFiltered(x, height_threshold) ==
    LET n == Len(x)
        S == SeqSum(x)
        D == SumSqDev(x)
    IN  {q \in LocalMaxima(x) :
            IF IsNone(height_threshold)
            THEN ClearsAutoThreshold(x[q + 1], n, S, D)
            ELSE x[q + 1] >= ValueOf(height_threshold)}

\* distance = int(self.sampling_rate * 60 / 800 * 0.6)
DefaultDistance(sr) == (sr * 60 * 6) \div (800 * 10)

\* signal.find_peaks, distance: peaks are visited from the highest to the lowest
\* (among equal heights the later first) and each one still kept removes the
\* others closer than distance
RECURSIVE SelectByDistance(_, _, _, _)
SelectByDistance(keep, todo, x, distance) ==
    IF todo = {} THEN keep
    ELSE LET j == CHOOSE q \in todo :
                     \A r \in todo : x[r + 1] < x[q + 1] \/ (x[r + 1] = x[q + 1] /\ r <= q)
         IN  SelectByDistance(
                 IF j \in keep
                 THEN {k \in keep : k = j \/ (k - j >= distance) \/ (j - k >= distance)}
                 ELSE keep,
                 todo \ {j}, x, distance)

\* signal.find_peaks(x, height=height_threshold, distance=distance)
FindPeaks(x, height_threshold, distance) ==
    LET candidates == HeightFiltered(x, height_threshold)
    IN  SortedSeq(SelectByDistance(candidates, candidates, x, distance))

\* the distance detect_r_peaks passes to find_peaks
DetectDistance(sr, distance) ==
    IF IsNone(distance) THEN DefaultDistance(sr) ELSE ValueOf(distance)

\* the state of the processor: the four attributes
Processor(d, fd, pks, hr) == [data |-> d, filtered_data |-> fd, peaks |-> pks, heart_rate |-> hr]

\* how a call ends: the processor after it, what it returns and what it raises.
\* A method that returns one of the attributes (return self.filtered_data,
\* return self.peaks, return self.heart_rate) returns the attribute's name.
Outcome(self, result, exception) == [self |-> self, ret |-> result, raised |-> exception]

\* filter_signal(lowcut, highcut) returning the conditioned signal y
filter_signal(self, sr, lo, hi, y) ==
    LET exception == FilterRaises(self.data, sr, lo, hi)
    IN  IF exception # "none" THEN Outcome(self, NoValue, exception)
        ELSE Outcome([self EXCEPT !.filtered_data = Some(y)], "filtered_data", "none")

\* the conditioned signals filter_signal may produce from this state
FilterChoices(self) ==
    IF IsNone(self.data) THEN {<<>>} ELSE ConditionedSignals(ValueOf(self.data))

\* a slip: the call to filter_signal left out when no conditioned signal is held
detect_r_peaks_NoFilter(self, sr, height_threshold, distance, y) ==
    IF IsNone(self.filtered_data)
    THEN Outcome([self EXCEPT !.peaks = Some(<<>>)], "peaks", "none")
    ELSE LET found == FindPeaks(ValueOf(self.filtered_data), height_threshold,
                                DetectDistance(sr, distance))
         IN  Outcome([self EXCEPT !.peaks = Some(found)], "peaks", "none")

\* detect_r_peaks(height_threshold, distance); y is what filter_signal produces
\* if it is called
detect_r_peaks(self, sr, height_threshold, distance, y) ==
    LET filtered == IF IsNone(self.filtered_data)
                    THEN filter_signal(self, sr, DefaultLowcut, DefaultHighcut, y)
                    ELSE Outcome(self, NoValue, "none")
    IN  IF filtered.raised # "none" THEN filtered
        ELSE IF DetectDistance(sr, distance) < 1
             THEN Outcome(filtered.self, NoValue, "ValueError")
             ELSE LET found == FindPeaks(ValueOf(filtered.self.filtered_data),
                                         height_threshold, DetectDistance(sr, distance))
                  IN  Outcome([filtered.self EXCEPT !.peaks = Some(found)],
                              "peaks", "none")

\* the statistics dictionary; 'std' is carried as the rates it is the deviation of
HeartRateStats(sr, pks) ==
    LET rates == HeartRates(sr, Diff(pks))
    IN  [mean |-> MeanRate(sr, Diff(pks)),
         std |-> [std_of |-> rates],
         min |-> MinRate(rates),
         max |-> MaxRate(rates)]

\* a slip: the stored statistics discarded before the number of peaks is checked
calculate_heart_rate_ResetFirst(self, sr, y) ==
    LET detected == IF IsNone(self.peaks)
                    THEN detect_r_peaks(self, sr, None, None, y)
                    ELSE Outcome(self, NoValue, "none")
    IN  IF detected.raised # "none" THEN detected
        ELSE IF Len(ValueOf(detected.self.peaks)) < 2
             THEN Outcome([detected.self EXCEPT !.heart_rate = None],
                          NoValue, "ValueError")
             ELSE LET stats == HeartRateStats(sr, ValueOf(detected.self.peaks))
                  IN  Outcome([detected.self EXCEPT !.heart_rate = Some(stats)],
                              "heart_rate", "none")

\* calculate_heart_rate()
calculate_heart_rate(self, sr, y) ==
    LET detected == IF IsNone(self.peaks)
                    THEN detect_r_peaks(self, sr, None, None, y)
                    ELSE Outcome(self, NoValue, "none")
    IN  IF detected.raised # "none" THEN detected
        ELSE IF Len(ValueOf(detected.self.peaks)) < 2
             THEN Outcome(detected.self, NoValue, "ValueError")
             ELSE LET stats == HeartRateStats(sr, ValueOf(detected.self.peaks))
                  IN  Outcome([detected.self EXCEPT !.heart_rate = Some(stats)],
                              "heart_rate", "none")

\* a slip: the truncating policy, every window kept
Segments_KeepTruncated(x, pks, ws) ==
    [k \in 1..Len(pks) |-> Slice(x, Max(0, pks[k] - ws), Min(Len(x), pks[k] + ws))]

\* the loop of segment_waveforms over the peaks
Segments(x, pks, ws) ==
    LET start(q) == Max(0, q - ws)
        end(q) == Min(Len(x), q + ws)
        complete == SelectSeq(pks, LAMBDA q : end(q) - start(q) = 2 * ws)
    IN  [k \in 1..Len(complete) |-> Slice(x, start(complete[k]), end(complete[k]))]

\* segment_waveforms(window_size): the processor after it and what it raises;
\* when it returns, it returns SegmentsOf the processor after it
segment_waveforms(self, sr, ws, y) ==
    LET detected == IF IsNone(self.peaks)
                    THEN detect_r_peaks(self, sr, None, None, y)
                    ELSE Outcome(self, NoValue, "none")
    IN  IF detected.raised # "none" THEN detected
        ELSE Outcome(detected.self, "waveforms", "none")

\* the list segment_waveforms(window_size) returns
SegmentsOf(self, ws) == Segments(ValueOf(self.filtered_data), ValueOf(self.peaks), ws)

----------------------------------------------------------------------------
(* The processor under calls, and the detector reporting on its results *)

Self == Processor(data, filtered_data, processor_peaks, heart_rate)

\* the call `name` ends with `outcome`; the detector is not involved
ProcessorCall(name, outcome, ws, lo, hi, wfs) ==
    /\ op' = name
    /\ data' = outcome.self.data
    /\ filtered_data' = outcome.self.filtered_data
    /\ processor_peaks' = outcome.self.peaks
    /\ heart_rate' = outcome.self.heart_rate
    /\ ret' = outcome.ret
    /\ raised' = outcome.raised
    /\ window_size' = ws
    /\ lowcut' = lo
    /\ highcut' = hi
    /\ rr_intervals' = <<>>
    /\ peaks' = <<>>
    /\ waveforms' = wfs
    /\ report' = None
    /\ UNCHANGED sampling_rate
    /\ UNCHANGED detectorVars
    /\ UNCHANGED peripheralVars

InitProcessor ==
    /\ sampling_rate \in ProcessorRates
    /\ tachycardia_threshold = DefaultTachycardiaThreshold
    /\ bradycardia_threshold = DefaultBradycardiaThreshold
    /\ rr_intervals = <<>>
    /\ peaks = <<>>
    /\ waveforms = <<>>
    /\ waveform = <<>>
    /\ peak_idx = 0
    /\ op = "none"
    /\ ret = NoValue
    /\ raised = "none"
    /\ heart_rates = <<>>
    /\ fperr = {}
    \* no sample of a signal of the model is exactly at the automatic threshold
    /\ fp_round = {}
    /\ data = None
    /\ filtered_data = None
    /\ processor_peaks = None
    /\ heart_rate = None
    /\ window_size = 0
    /\ lowcut = 0
    /\ highcut = 0
    /\ report = None
    /\ PeripheralsIdle

\* load_data(data): self.data = data
load_data(self, x) == [self EXCEPT !.data = Some(x)]

LoadData ==
    \E x \in Signals :
        ProcessorCall("load_data", Outcome(load_data(Self, x), NoValue, "none"),
                      0, 0, 0, <<>>)

\* load_from_file(filepath), the file holding the signal x: self.data = <the samples>
load_from_file(self, x) == [self EXCEPT !.data = Some(x)]

LoadFromFile ==
    \E x \in Signals :
        ProcessorCall("load_from_file", Outcome(load_from_file(Self, x), NoValue, "none"),
                      0, 0, 0, <<>>)

FilterSignal ==
    \E args \in FilterArgs, y \in FilterChoices(Self) :
        ProcessorCall("filter_signal",
                      filter_signal(Self, sampling_rate, args[1], args[2], y),
                      0, args[1], args[2], <<>>)

DetectRPeaks ==
    \E args \in DetectArgs, y \in FilterChoices(Self) :
        ProcessorCall("detect_r_peaks",
                      detect_r_peaks(Self, sampling_rate, args[1], args[2], y),
                      0, 0, 0, <<>>)

CalculateHeartRate ==
    \E y \in FilterChoices(Self) :
        ProcessorCall("calculate_heart_rate",
                      calculate_heart_rate(Self, sampling_rate, y), 0, 0, 0, <<>>)

SegmentWaveforms ==
    \E ws \in WindowSizes, y \in FilterChoices(Self) :
        LET outcome == segment_waveforms(Self, sampling_rate, ws, y)
        IN  ProcessorCall("segment_waveforms", outcome, ws, 0, 0,
                          IF outcome.raised = "none"
                          THEN SegmentsOf(outcome.self, ws) ELSE <<>>)

\* the callers' report step, once peaks have been detected:
\*   waveforms = processor.segment_waveforms(window_size)
\*   rr_intervals = np.diff(processor.peaks)
\*   report = detector.generate_report(rr_intervals, waveforms, processor.peaks)
ReportOnPeaksWith(W) ==
    \E ws \in W :
        /\ ~IsNone(processor_peaks)
        /\ LET rr == Diff(ValueOf(processor_peaks))
           IN  /\ op' = "generate_report"
               /\ window_size' = ws
               /\ lowcut' = 0
               /\ highcut' = 0
               /\ waveforms' = SegmentsOf(Self, ws)
               /\ rr_intervals' = rr
               /\ peaks' = ValueOf(processor_peaks)
               /\ raised' = ReportRaises(rr)
               /\ ret' = IF raised' = "none" THEN "report" ELSE NoValue
               /\ report' = IF raised' = "none"
                            THEN Some(generate_report(sampling_rate, tachycardia_threshold,
                                                      bradycardia_threshold, rr,
                                                      waveforms', peaks'))
                            ELSE None
               /\ heart_rates' = HeartRates(sampling_rate, rr)
               /\ fperr' = ReportFpErr(rr)
        /\ UNCHANGED <<sampling_rate, tachycardia_threshold, bradycardia_threshold,
                       waveform, peak_idx>>
        /\ UNCHANGED <<data, filtered_data, processor_peaks, heart_rate>>
        /\ UNCHANGED peripheralVars

ReportOnPeaks == ReportOnPeaksWith(WindowSizes)

NextProcessor ==
    \/ LoadData
    \/ LoadFromFile
    \/ FilterSignal
    \/ DetectRPeaks
    \/ CalculateHeartRate
    \/ SegmentWaveforms
    \/ ReportOnPeaks

SpecProcessor == InitProcessor /\ [][NextProcessor]_vars

\* process_file (cli.py): the calls in the order of the code, each with its
\* default arguments, the next one made only when the last one returned
\*   25  processor.load_from_file(args.input)
\*   29  processor.filter_signal()
\*   33  processor.detect_r_peaks()
\*   37  processor.calculate_heart_rate()
\*   41  processor.segment_waveforms(), 45 np.diff, 46 detector.generate_report
NextPipeline ==
    \/ /\ op = "none"
       /\ \E x \in PipelineSignals :
             ProcessorCall("load_from_file",
                           Outcome(load_from_file(Self, x), NoValue, "none"),
                           0, 0, 0, <<>>)
    \/ /\ op = "load_from_file"
       /\ \E y \in FilterChoices(Self) :
             ProcessorCall("filter_signal",
                           filter_signal(Self, sampling_rate, DefaultLowcut,
                                         DefaultHighcut, y),
                           0, DefaultLowcut, DefaultHighcut, <<>>)
    \/ /\ op = "filter_signal" /\ raised = "none"
       /\ \E y \in FilterChoices(Self) :
             ProcessorCall("detect_r_peaks",
                           detect_r_peaks(Self, sampling_rate, None, None, y),
                           0, 0, 0, <<>>)
    \/ /\ op = "detect_r_peaks" /\ raised = "none"
       /\ CalculateHeartRate
    \/ /\ op = "calculate_heart_rate" /\ raised = "none"
       /\ ReportOnPeaksWith({DefaultWindowSize})

SpecPipeline == InitProcessor /\ [][NextPipeline]_vars

\* demo_visualization (examples/demo.py): no call of calculate_heart_rate, and
\* segment_waveforms with a window_size argument
\*   208  processor.load_data(ekg_signal)
\*   209  processor.filter_signal()
\*   210  processor.detect_r_peaks()
\*   227  np.diff, 236 processor.segment_waveforms(window_size=100),
\*   247  detector.generate_report
NextVisualization ==
    \/ /\ op = "none"
       /\ \E x \in PipelineSignals :
             ProcessorCall("load_data", Outcome(load_data(Self, x), NoValue, "none"),
                           0, 0, 0, <<>>)
    \/ /\ op = "load_data"
       /\ \E y \in FilterChoices(Self) :
             ProcessorCall("filter_signal",
                           filter_signal(Self, sampling_rate, DefaultLowcut,
                                         DefaultHighcut, y),
                           0, DefaultLowcut, DefaultHighcut, <<>>)
    \/ /\ op = "filter_signal" /\ raised = "none"
       /\ \E y \in FilterChoices(Self) :
             ProcessorCall("detect_r_peaks",
                           detect_r_peaks(Self, sampling_rate, None, None, y),
                           0, 0, 0, <<>>)
    \/ /\ op = "detect_r_peaks" /\ raised = "none"
       \* the window_size argument: demo_visualization passes 100
       /\ ReportOnPeaksWith({0, 49, 50, 100, DefaultWindowSize})

SpecVisualization == InitProcessor /\ [][NextVisualization]_vars

----------------------------------------------------------------------------
(* Claims about analyze_rhythm and label_beats, checked under SpecRhythm *)

HasEvent(events, kind, i) == \E k \in DOMAIN events : events[k] = Event(kind, i)

KindsOf(events) == {events[k].kind : k \in DOMAIN events}

AllEqualTo(rr, v) == \A k \in DOMAIN rr : rr[k] = v

IsConstant(rr) == \A j, k \in DOMAIN rr : rr[j] = rr[k]

Returned(name) == op = name /\ raised = "none"

\* C1: for every non-empty RR sequence whose intervals are all equal,
\* analyze_rhythm emits no IRREGULAR, no PAUSE and no PREMATURE_BEAT event, and
\* the heart rate of every interval is exactly 60*sampling_rate/rr (600 bpm for
\* rr = 100 at 1000 Hz).
C1_ConstantRhythm ==
    (op = "analyze_rhythm" /\ rr_intervals # <<>> /\ IsConstant(rr_intervals)) =>
        /\ raised = "none"
        /\ KindsOf(ret) \cap {IRREGULAR, PAUSE, PREMATURE_BEAT} = {}
        /\ Len(heart_rates) = Len(rr_intervals)
        /\ \A k \in DOMAIN rr_intervals :
              /\ heart_rates[k].den > 0
              /\ heart_rates[k].num * rr_intervals[k]
                    = 60 * sampling_rate * heart_rates[k].den
              /\ (rr_intervals[k] = 100 /\ sampling_rate = 1000)
                    => heart_rates[k].num = 600 * heart_rates[k].den

C1_Witness ==
    /\ Returned("analyze_rhythm")
    /\ rr_intervals = <<100, 100, 100, 100>>
    /\ sampling_rate = 1000
    /\ tachycardia_threshold = DefaultTachycardiaThreshold
    /\ bradycardia_threshold = DefaultBradycardiaThreshold
    /\ ret = <<>>
    /\ heart_rates[1].num = 600 * heart_rates[1].den

\* C2: with the default thresholds (700/400 bpm) and sampling_rate = 1000, an RR
\* sequence of all 70-sample intervals gets a TACHYCARDIA event for every
\* interval index, and one of all 200-sample intervals gets a BRADYCARDIA event
\* for every interval index.
C2_TachyBradyEveryInterval ==
    (/\ op = "analyze_rhythm"
     /\ sampling_rate = 1000
     /\ tachycardia_threshold = 700
     /\ bradycardia_threshold = 400) =>
        /\ AllEqualTo(rr_intervals, 70) =>
              /\ raised = "none"
              /\ \A i \in 0..(Len(rr_intervals) - 1) : HasEvent(ret, TACHYCARDIA, i)
        /\ AllEqualTo(rr_intervals, 200) =>
              /\ raised = "none"
              /\ \A i \in 0..(Len(rr_intervals) - 1) : HasEvent(ret, BRADYCARDIA, i)

C2_Witness ==
    /\ Returned("analyze_rhythm")
    /\ sampling_rate = 1000
    /\ tachycardia_threshold = 700
    /\ bradycardia_threshold = 400
    /\ rr_intervals = <<70, 70, 70>>
    /\ ret = <<Event(TACHYCARDIA, 0), Event(TACHYCARDIA, 1), Event(TACHYCARDIA, 2)>>

\* hr > threshold for hr = 60*sampling_rate/x, x > 0, stated on the inputs
RateAbove(x, threshold) == 60 * sampling_rate > threshold * x

RateBelow(x, threshold) == 60 * sampling_rate < threshold * x

\* C3 as claimed: for every interval i and every setting of the thresholds,
\* analyze_rhythm emits TACHYCARDIA for i exactly when hr > tachycardia_threshold
\* and BRADYCARDIA for i exactly when hr < bradycardia_threshold.
C3_Original ==
    Returned("analyze_rhythm") =>
        \A i \in 0..(Len(rr_intervals) - 1) :
            /\ HasEvent(ret, TACHYCARDIA, i)
                  <=> RateAbove(rr_intervals[i + 1], tachycardia_threshold)
            /\ HasEvent(ret, BRADYCARDIA, i)
                  <=> RateBelow(rr_intervals[i + 1], bradycardia_threshold)

\* C3 as amended: analyze_rhythm emits TACHYCARDIA for i exactly when
\* hr > tachycardia_threshold, and BRADYCARDIA for i exactly when
\* hr < bradycardia_threshold and not hr > tachycardia_threshold (the
\* bradycardia rule is the elif branch of the tachycardia rule).
C3_RateRules ==
    Returned("analyze_rhythm") =>
        \A i \in 0..(Len(rr_intervals) - 1) :
            /\ HasEvent(ret, TACHYCARDIA, i)
                  <=> RateAbove(rr_intervals[i + 1], tachycardia_threshold)
            /\ HasEvent(ret, BRADYCARDIA, i)
                  <=> (/\ RateBelow(rr_intervals[i + 1], bradycardia_threshold)
                       /\ ~RateAbove(rr_intervals[i + 1], tachycardia_threshold))

C3_Witness ==
    /\ Returned("analyze_rhythm")
    /\ tachycardia_threshold < bradycardia_threshold
    /\ \E i \in 0..(Len(rr_intervals) - 1) :
          /\ RateAbove(rr_intervals[i + 1], tachycardia_threshold)
          /\ RateBelow(rr_intervals[i + 1], bradycardia_threshold)
          /\ HasEvent(ret, TACHYCARDIA, i)
          /\ ~HasEvent(ret, BRADYCARDIA, i)
    /\ \E i \in 0..(Len(rr_intervals) - 1) : HasEvent(ret, BRADYCARDIA, i)

\* C4 as claimed: for every interval i, analyze_rhythm emits IRREGULAR for i
\* exactly when |rr[i] - mean(rr)| > 2*stdDev(rr) and PAUSE for i exactly when
\* rr[i] > 1.5*mean(rr), mean and stdDev being those of the entire RR sequence
\* passed in.  With n = len(rr), S = sum(rr) and dev[k] = n*rr[k] - S:
\* |rr[i] - mean| > 2*stdDev  iff  n * dev[i]^2 > 4 * sum_k dev[k]^2.
C4_GlobalBaseline ==
    op = "analyze_rhythm" =>
        LET rr == rr_intervals
            n == Len(rr)
            S == SumRange(rr, 1, n)
            dev == [k \in 1..n |-> n * rr[k] - S]
            D == SumRange([k \in 1..n |-> dev[k] * dev[k]], 1, n)
        IN  /\ raised = "none"
            /\ \A i \in 0..(n - 1) :
                  /\ HasEvent(ret, IRREGULAR, i) <=> n * dev[i + 1] * dev[i + 1] > 4 * D
                  /\ HasEvent(ret, PAUSE, i) <=> 2 * n * rr[i + 1] > 3 * S

\* C5: analyze_rhythm emits PREMATURE_BEAT for interval i exactly when i is not
\* the last interval, rr[i] < 0.7*mean(rr) and rr[i+1] > 1.3*mean(rr); no
\* PREMATURE_BEAT event carries the index of the last interval, and rr[i+1] is
\* never read past the end of the sequence (no IndexError).
C5_PrematureBeat ==
    op = "analyze_rhythm" =>
        LET rr == rr_intervals
            n == Len(rr)
            S == SumRange(rr, 1, n)
        IN  /\ raised = "none"
            /\ \A i \in 0..(n - 1) :
                  HasEvent(ret, PREMATURE_BEAT, i)
                     <=> (/\ i # n - 1
                          /\ 10 * n * rr[i + 1] < 7 * S
                          /\ 10 * n * rr[i + 2] > 13 * S)
            /\ ~HasEvent(ret, PREMATURE_BEAT, n - 1)

C5_Witness ==
    /\ Returned("analyze_rhythm")
    /\ Len(rr_intervals) >= 3
    /\ \E i \in 0..(Len(rr_intervals) - 2) : HasEvent(ret, PREMATURE_BEAT, i)
    /\ 10 * Len(rr_intervals) * rr_intervals[Len(rr_intervals)] < 7 * SeqSum(rr_intervals)
    /\ ~HasEvent(ret, PREMATURE_BEAT, Len(rr_intervals) - 1)

\* C6 as claimed: when the RR sequence has fewer than 2 elements,
\* analyze_rhythm treats stdDev as 0 and produces no deviation-based event and
\* no undefined value: the mean and the standard deviation it computes are
\* numbers (no 0/0), no deviation is divided by a zero standard deviation, for
\* an empty sequence it returns an empty event list, and for a single-element
\* sequence it returns at most one event, of kind TACHYCARDIA or BRADYCARDIA
\* (never IRREGULAR, PREMATURE_BEAT or PAUSE).
C6_FewerThanTwo ==
    (op = "analyze_rhythm" /\ Len(rr_intervals) < 2) =>
        /\ raised = "none"
        /\ "rr_mean" \notin fperr
        /\ "deviation" \notin fperr
        /\ Len(rr_intervals) = 0 => ret = <<>>
        /\ Len(rr_intervals) = 1 =>
              /\ Len(ret) <= 1
              /\ KindsOf(ret) \subseteq {TACHYCARDIA, BRADYCARDIA}

\* C7 as claimed: for every RR sequence derived from a strictly increasing
\* PeakSet (all intervals >= 1), no division by zero is evaluated in
\* analyze_rhythm; in particular a sequence with zero standard deviation never
\* produces an IRREGULAR event.
C7_NoDivisionByZero ==
    (op \in {"analyze_rhythm", "label_beats"}
       /\ \A k \in DOMAIN rr_intervals : rr_intervals[k] >= 1) =>
        /\ fperr = {}
        /\ (Returned("analyze_rhythm") /\ SumSqDev(rr_intervals) = 0)
              => IRREGULAR \notin KindsOf(ret)

\* C8: label_beats(peaks, rr) returns exactly len(peaks) labels; the label at
\* position k is "Normal" when analyze_rhythm(rr) has no event with beat index
\* k, and otherwise the kind of the last event with beat index k in
\* analyze_rhythm's output order; events whose index is >= len(peaks) are
\* ignored.
C8_LabelBeats ==
    op = "label_beats" =>
        LET ev == analyze_rhythm(sampling_rate, tachycardia_threshold,
                                 bradycardia_threshold, rr_intervals)
            at(k) == {j \in DOMAIN ev : ev[j].idx = k}
            last(k) == CHOOSE j \in at(k) : \A m \in at(k) : m <= j
        IN  /\ raised = "none"
            /\ Len(ret) = Len(peaks)
            /\ \A k \in 0..(Len(peaks) - 1) :
                  ret[k + 1] = IF at(k) = {} THEN "Normal" ELSE ev[last(k)].kind
            /\ \A k \in 0..(Len(peaks) - 1) :
                  /\ (HasEvent(ev, IRREGULAR, k) /\ HasEvent(ev, PAUSE, k))
                        => ret[k + 1] = PAUSE
                  /\ (/\ HasEvent(ev, TACHYCARDIA, k)
                      /\ HasEvent(ev, IRREGULAR, k)
                      /\ ~HasEvent(ev, PREMATURE_BEAT, k)
                      /\ ~HasEvent(ev, PAUSE, k))
                        => ret[k + 1] = IRREGULAR

C8_Witness ==
    /\ Returned("label_beats")
    /\ Len(peaks) = 3
    /\ Len(rr_intervals) > 3
    /\ LET ev == analyze_rhythm(sampling_rate, tachycardia_threshold,
                                bradycardia_threshold, rr_intervals)
       IN  /\ HasEvent(ev, BRADYCARDIA, 0)
           /\ HasEvent(ev, IRREGULAR, 0)
           /\ HasEvent(ev, PAUSE, 0)
           /\ ret[1] = PAUSE
           /\ ret[2] = "Normal"
           /\ \E j \in DOMAIN ev : ev[j].idx >= Len(peaks)

----------------------------------------------------------------------------
(* Claims about classify_waveform, checked under SpecWaveform *)

\* C9: classify_waveform(waveform, peak_idx) returns NORMAL for every waveform
\* whose length is less than peak_idx + 50, regardless of the sample values.
C9_ShortWaveformNormal ==
    (op = "classify_waveform" /\ Len(waveform) < peak_idx + 50) => ret = WAVE_NORMAL

C9_Witness ==
    /\ op = "classify_waveform"
    /\ Len(waveform) = 80
    /\ peak_idx = 31
    /\ \E k \in DOMAIN waveform : waveform[k] = 1
    /\ \E k \in DOMAIN waveform : waveform[k] = -1
    /\ ret = WAVE_NORMAL

\* C10: for every waveform with length >= peak_idx + 50 whose QRS window
\* [peak_idx-30, peak_idx+30] is not clipped (peak_idx >= 30), classify_waveform
\* returns WIDE_QRS regardless of the sample values.
C10_UnclippedWindowWideQrs ==
    (op = "classify_waveform" /\ Len(waveform) >= peak_idx + 50 /\ peak_idx >= 30)
        => ret = WIDE_QRS

C10_Witness ==
    /\ op = "classify_waveform"
    /\ Len(waveform) = 80
    /\ peak_idx = 30
    /\ \A k \in DOMAIN waveform : waveform[k] = 0
    /\ ret = WIDE_QRS

AllZeros(w) == \A k \in DOMAIN w : w[k] = 0

\* C11 as claimed: for every waveform consisting entirely of zeros, of any length
\* and with any peak offset, classify_waveform returns NORMAL.
C11_Original ==
    (op = "classify_waveform" /\ AllZeros(waveform)) => ret = WAVE_NORMAL

\* C11 as amended: for a waveform consisting entirely of zeros and a peak offset
\* >= 0, classify_waveform returns WIDE_QRS when the waveform has at least
\* peak_idx + 50 samples and the clipped QRS window
\* [max(0, peak_idx-30), min(len, peak_idx+30)) is more than 40 samples wide
\* (that is, peak_idx > 10), and NORMAL otherwise.
C11_ZeroWaveform ==
    (op = "classify_waveform" /\ AllZeros(waveform) /\ peak_idx >= 0) =>
        LET len == Len(waveform)
            qrs_start == IF peak_idx - 30 > 0 THEN peak_idx - 30 ELSE 0
            qrs_end == IF peak_idx + 30 < len THEN peak_idx + 30 ELSE len
        IN  /\ (len >= peak_idx + 50 /\ qrs_end - qrs_start > 40) => ret = WIDE_QRS
            /\ (len >= peak_idx + 50 /\ peak_idx > 10) => ret = WIDE_QRS
            /\ (len < peak_idx + 50 \/ qrs_end - qrs_start <= 40) => ret = WAVE_NORMAL

\* an all-zero waveform long enough for the ST and T windows to be examined
C11_Witness ==
    /\ op = "classify_waveform"
    /\ AllZeros(waveform)
    /\ Len(waveform) = 100
    /\ peak_idx = 10
    /\ ret = WAVE_NORMAL

----------------------------------------------------------------------------
(* Claims about generate_report, checked under SpecReport *)

\* 1 when the condition holds, 0 otherwise
Count(b) == IF b THEN 1 ELSE 0

\* the number of events the rules of analyze_rhythm produce for interval i of
\* rr, stated on the intervals: n = len(rr), S = sum(rr), D = sum of the
\* squares of n*rr[k] - S
RuleCount(rr, i, tachy, brady) ==
    LET n == Len(rr)
        S == SumRange(rr, 1, n)
        D == SumRange([k \in 1..n |-> (n * rr[k] - S) * (n * rr[k] - S)], 1, n)
        x == rr[i + 1]
        fast == 60 * sampling_rate > tachy * x
        slow == 60 * sampling_rate < brady * x
    IN  Count(fast) + Count(slow /\ ~fast)
        + Count(n * (n * x - S) * (n * x - S) > 4 * D)
        + Count(i < n - 1 /\ 10 * n * x < 7 * S /\ 10 * n * rr[i + 2] > 13 * S)
        + Count(2 * n * x > 3 * S)

\* C12: for every successful generate_report(rr, waveforms, peaks),
\* total_beats == len(peaks) and arrhythmias_detected is the number of events
\* analyze_rhythm(rr) returns, independently of how many waveforms are passed
\* (5 waveforms and 5 peaks give total_beats == 5).
C12_ReportCounts ==
    Returned("generate_report") =>
        /\ ret.total_beats = Len(peaks)
        /\ ret.arrhythmias_detected =
              SumRange([k \in 1..Len(rr_intervals) |->
                          RuleCount(rr_intervals, k - 1, tachycardia_threshold,
                                    bradycardia_threshold)],
                       1, Len(rr_intervals))
        /\ ret.arrhythmias_detected = Len(ret.arrhythmia_details)
        /\ (Len(waveforms) = 5 /\ Len(peaks) = 5) => ret.total_beats = 5

\* five peaks with two waveforms, three events of three kinds
C12_Witness ==
    /\ Returned("generate_report")
    /\ Len(peaks) = 5
    /\ Len(waveforms) = 2
    /\ rr_intervals = <<70, 200>>
    /\ ret.total_beats = 5
    /\ ret.arrhythmias_detected = 3
    /\ ret.abnormal_waveforms = 1

\* five peaks with five waveforms
C12_WitnessFive ==
    /\ Returned("generate_report")
    /\ Len(peaks) = 5
    /\ Len(waveforms) = 5
    /\ ret.total_beats = 5
    /\ ret.arrhythmias_detected > 0

----------------------------------------------------------------------------
(* Claims about the processor, checked under SpecProcessor *)

\* the positions in the PeakSet pks (from 1) of the peaks whose window of ws
\* samples either side lies within a signal of n samples
InsideWindow(pks, ws, n) == {i \in DOMAIN pks : pks[i] - ws >= 0 /\ pks[i] + ws <= n}

\* the k-th smallest element of the set K of numbers, k from 1
KthOf(K, k) == CHOOSE i \in K : Cardinality({m \in K : m <= i}) = k

\* C13: segment_waveforms(window_size) applies the drop policy: a peak p
\* contributes a waveform exactly when p - window_size >= 0 and
\* p + window_size <= len(signal); every returned waveform has length exactly
\* 2*window_size and holds the samples around its peak, waveforms appear in peak
\* order, and the output count is <= len(peaks), strictly less when some peak
\* lies within window_size of a boundary.
C13_DropPolicy ==
    (op = "segment_waveforms" /\ raised = "none") =>
        LET x == filtered_data[1]
            pks == processor_peaks[1]
            out == waveforms
            K == InsideWindow(pks, window_size, Len(x))
        IN  /\ Len(out) = Cardinality(K)
            /\ \A k \in DOMAIN out :
                  /\ Len(out[k]) = 2 * window_size
                  /\ \A j \in 1..(2 * window_size) :
                        out[k][j] = x[pks[KthOf(K, k)] - window_size + j]
            /\ Len(out) <= Len(pks)
            /\ (K # DOMAIN pks) => Len(out) < Len(pks)

\* three peaks, the last one closer than window_size to the end of the signal:
\* two waveforms
C13_Witness ==
    /\ op = "segment_waveforms"
    /\ raised = "none"
    /\ window_size = 50
    /\ processor_peaks = Some(<<80, 120, 160>>)
    /\ Len(filtered_data[1]) = 180
    /\ Len(waveforms) = 2
    /\ waveforms[1][51] = filtered_data[1][81]

\* C14 as claimed: in the pipeline segment_waveforms -> generate_report, for
\* every entry of waveform_details, beat_number equals the index within the
\* PeakSet of the peak on which that waveform is centered, including when
\* windows of leading peaks were dropped at the signal start.
C14_BeatNumberIsPeakIndex ==
    (op = "generate_report" /\ raised = "none" /\ ~IsNone(filtered_data)) =>
        LET details == report[1].waveform_details
            K == InsideWindow(peaks, window_size, Len(filtered_data[1]))
        IN  \A d \in DOMAIN details :
               \* the entry describes waveform number beat_number of the list
               \* (from 0), which is centered on the peak at position
               \* KthOf(K, beat_number + 1) of the PeakSet (from 1)
               details[d].beat_number = KthOf(K, details[d].beat_number + 1) - 1

\* C15 as claimed: immediately after any load_data (or load_from_file) call,
\* filtered_data, peaks and heart_rate are all absent (None), whatever
\* operations preceded the load.
C15_LoadResets ==
    op \in {"load_data", "load_from_file"} =>
        /\ IsNone(filtered_data)
        /\ IsNone(processor_peaks)
        /\ IsNone(heart_rate)

\* C16 as claimed: filter_signal returns a conditioned signal of the same
\* length as the loaded signal, and in every state where filtered_data is
\* present, len(filtered_data) == len(data).
C16_ConditionedLength ==
    /\ (op = "filter_signal" /\ raised = "none") =>
          /\ ret = "filtered_data"
          /\ Len(filtered_data[1]) = Len(data[1])
    /\ ~IsNone(filtered_data) =>
          /\ ~IsNone(data)
          /\ Len(filtered_data[1]) = Len(data[1])

\* C17 as claimed: in every state where the processor's peaks are present
\* they are strictly increasing, unique, and each index lies in
\* [0, len(filtered_data)) of the conditioned signal currently held.
C17_PeaksWithinSignal ==
    ~IsNone(processor_peaks) =>
        LET pks == processor_peaks[1]
        IN  /\ ~IsNone(filtered_data)
            /\ \A j, k \in DOMAIN pks : j < k => pks[j] < pks[k]
            /\ \A k \in DOMAIN pks : 0 <= pks[k] /\ pks[k] < Len(filtered_data[1])

\* C18: whenever heart-rate statistics are requested with fewer than 2 peaks,
\* the request fails with an error surfaced to the caller and yields no
\* statistics: calculate_heart_rate raises and leaves the stored heart_rate
\* unchanged, and generate_report with an empty RR sequence raises instead of
\* returning a report.
C18_InsufficientData ==
    [][/\ (/\ op' = "calculate_heart_rate"
           /\ (IsNone(processor_peaks') \/ Len(processor_peaks'[1]) < 2)) =>
              /\ raised' # "none"
              /\ ret' = NoValue
              /\ heart_rate' = heart_rate
       /\ (op' = "generate_report" /\ Len(rr_intervals') = 0) =>
              /\ raised' # "none"
              /\ ret' = NoValue
              /\ IsNone(report')]_vars

\* one peak detected, statistics of an earlier signal still stored
C18_Witness ==
    /\ op = "calculate_heart_rate"
    /\ raised = "ValueError"
    /\ processor_peaks = Some(<<40>>)
    /\ ~IsNone(heart_rate)

\* the report step on a one-peak PeakSet
C18_WitnessReport ==
    /\ op = "generate_report"
    /\ raised = "ValueError"
    /\ Len(peaks) = 1
    /\ rr_intervals = <<>>
    /\ IsNone(report)

\* C19: filter_signal(lowcut, highcut) fails with an error whenever
\* lowcut >= highcut or either cutoff exceeds the Nyquist frequency
\* sampling_rate/2 (including the default highcut of 100 Hz when
\* sampling_rate <= 200), and on such a failure filtered_data keeps its
\* previous value.  Cutoffs are in half-Hz units: a cutoff c exceeds the
\* Nyquist frequency when c > sampling_rate, and 100 Hz is 200.
C19_InvalidRange ==
    [][(/\ op' = "filter_signal"
        /\ \/ lowcut' >= highcut'
           \/ lowcut' > sampling_rate
           \/ highcut' > sampling_rate
           \/ (highcut' = 200 /\ sampling_rate <= 200)) =>
          /\ raised' # "none"
          /\ ret' = NoValue
          /\ filtered_data' = filtered_data]_vars

\* a cutoff above the Nyquist frequency, a conditioned signal already held
C19_Witness ==
    /\ op = "filter_signal"
    /\ raised = "ValueError"
    /\ ~IsNone(data)
    /\ ~IsNone(filtered_data)
    /\ lowcut < highcut
    /\ highcut > sampling_rate

\* the default cutoffs at a sampling rate of 200 Hz
C19_WitnessDefault ==
    /\ op = "filter_signal"
    /\ raised = "ValueError"
    /\ ~IsNone(data)
    /\ Len(data[1]) > 27
    /\ sampling_rate = 200
    /\ lowcut = 1
    /\ highcut = 200

\* C20: calling filter_signal, detect_r_peaks, calculate_heart_rate or
\* segment_waveforms on a processor with no signal loaded raises an error to
\* the caller and leaves data, filtered_data, peaks and heart_rate all absent.
C20_NoSignalLoaded ==
    [][(/\ IsNone(data)
        /\ op' \in {"filter_signal", "detect_r_peaks", "calculate_heart_rate",
                    "segment_waveforms"}) =>
          /\ raised' # "none"
          /\ ret' = NoValue
          /\ IsNone(data')
          /\ IsNone(filtered_data')
          /\ IsNone(processor_peaks')
          /\ IsNone(heart_rate')]_vars

C20_Witness ==
    /\ op = "segment_waveforms"
    /\ raised = "ValueError"
    /\ IsNone(data)
    /\ IsNone(filtered_data)
    /\ IsNone(processor_peaks)
    /\ IsNone(heart_rate)

----------------------------------------------------------------------------
(* Claims about the order and the exclusion of events and labels *)

\* the place of a kind in the loop body of analyze_rhythm
RuleRank(kind) ==
    CASE kind = TACHYCARDIA -> 1
      [] kind = BRADYCARDIA -> 1
      [] kind = IRREGULAR -> 2
      [] kind = PREMATURE_BEAT -> 3
      [] kind = PAUSE -> 4

\* C23: analyze_rhythm returns an ordered event sequence: beat indices are
\* non-decreasing along the list and each lies in [0, len(rr)); for one
\* interval the events appear in the fixed order rate event (TACHYCARDIA or
\* BRADYCARDIA), IRREGULAR, PREMATURE_BEAT, PAUSE; each kind occurs at most once
\* per interval, and TACHYCARDIA and BRADYCARDIA never both occur for the same
\* interval.
C23_OrderedEvents ==
    Returned("analyze_rhythm") =>
        /\ \A k \in DOMAIN ret : 0 <= ret[k].idx /\ ret[k].idx < Len(rr_intervals)
        /\ \A j, k \in DOMAIN ret :
              j < k =>
                 /\ ret[j].idx <= ret[k].idx
                 /\ ret[j].idx = ret[k].idx => RuleRank(ret[j].kind) < RuleRank(ret[k].kind)
        /\ \A i \in 0..(Len(rr_intervals) - 1) :
              /\ ~(HasEvent(ret, TACHYCARDIA, i) /\ HasEvent(ret, BRADYCARDIA, i))
              /\ \A kind \in {TACHYCARDIA, BRADYCARDIA, IRREGULAR, PREMATURE_BEAT, PAUSE} :
                    Cardinality({k \in DOMAIN ret : ret[k] = Event(kind, i)}) <= 1

\* one interval with a rate event, IRREGULAR and PAUSE, in that order, after
\* an interval with a rate event and PREMATURE_BEAT
C23_Witness ==
    /\ Returned("analyze_rhythm")
    /\ \E k \in DOMAIN ret :
          /\ k + 4 \in DOMAIN ret
          /\ ret[k].kind = TACHYCARDIA
          /\ ret[k + 1] = Event(PREMATURE_BEAT, ret[k].idx)
          /\ ret[k + 2] = Event(BRADYCARDIA, ret[k].idx + 1)
          /\ ret[k + 3] = Event(IRREGULAR, ret[k].idx + 1)
          /\ ret[k + 4] = Event(PAUSE, ret[k].idx + 1)

\* the ST shift of the waveform w around the peak offset p, against
\* 0.1 * max(w): np.mean(w[p+30 : min(len, p+60)]) - np.mean(w[:max(1, p-50)]),
\* cross-multiplied by the two lengths
StShiftTimes10(w, p) ==
    LET st == Slice(w, p + 30, Min(Len(w), p + 60))
        base == Slice(w, 0, Max(1, p - 50))
    IN  10 * (SeqSum(st) * Len(base) - SeqSum(base) * Len(st))

StScale(w, p) ==
    LET st == Slice(w, p + 30, Min(Len(w), p + 60))
        base == Slice(w, 0, Max(1, p - 50))
    IN  SeqMax(w) * Len(st) * Len(base)

StShifted(w, p) ==
    /\ Min(Len(w), p + 60) > p + 30
    /\ \/ StShiftTimes10(w, p) > StScale(w, p)
       \/ StShiftTimes10(w, p) < -StScale(w, p)

\* C24: classify_waveform evaluates its checks in the precedence order QRS
\* width, ST shift, T-wave polarity, first true wins: it returns ELEVATED_ST,
\* DEPRESSED_ST or INVERTED_T only when the clipped QRS window width is <= 40
\* samples (for peak_idx >= 0 this means peak_idx <= 10), and returns
\* INVERTED_T only when neither ST condition holds.
C24_Precedence ==
    op = "classify_waveform" =>
        LET len == Len(waveform)
            width == Min(len, peak_idx + 30) - Max(0, peak_idx - 30)
        IN  /\ ret \in {ELEVATED_ST, DEPRESSED_ST, INVERTED_T} =>
                  /\ len >= peak_idx + 50
                  /\ width <= 40
                  /\ peak_idx <= 10
            /\ (len >= peak_idx + 50 /\ width > 40) => ret = WIDE_QRS
            /\ ret = INVERTED_T => ~StShifted(waveform, peak_idx)
            /\ (len >= peak_idx + 50 /\ width <= 40 /\ StShifted(waveform, peak_idx)) =>
                  ret \in {ELEVATED_ST, DEPRESSED_ST}

\* a flat ST segment followed by a negative T wave
C24_Witness ==
    /\ op = "classify_waveform"
    /\ ret = INVERTED_T
    /\ peak_idx = 10
    /\ Len(waveform) >= peak_idx + 60
    /\ ~StShifted(waveform, peak_idx)

\* a depressed ST segment followed by a negative T wave: the ST check wins
C24_WitnessStFirst ==
    /\ op = "classify_waveform"
    /\ ret = DEPRESSED_ST
    /\ peak_idx <= 10
    /\ Len(waveform) > peak_idx + 60
    /\ waveform[Len(waveform)] = -1
    /\ TCheck(waveform, peak_idx) = INVERTED_T

\* C26: for every non-empty PeakSet with rr = the differences of consecutive
\* peaks (one interval fewer than peaks), the label that label_beats assigns to
\* the last peak is always "Normal": event indices are interval indices in
\* [0, len(peaks)-2], so no event labels the final beat.
C26_LastBeatNormal ==
    (/\ op = "label_beats"
     /\ Len(peaks) >= 1
     /\ Len(rr_intervals) = Len(peaks) - 1) =>
        /\ raised = "none"
        /\ Len(ret) = Len(peaks)
        /\ ret[Len(peaks)] = "Normal"

\* three peaks, both intervals labelled, the last beat "Normal"
C26_Witness ==
    /\ Returned("label_beats")
    /\ Len(peaks) = 3
    /\ Len(rr_intervals) = 2
    /\ ret[1] # "Normal"
    /\ ret[2] # "Normal"
    /\ ret[3] = "Normal"

\* C27: for every RR sequence of positive intervals, analyze_rhythm never
\* emits both PREMATURE_BEAT and PAUSE for the same interval index.
C27_PrematureExcludesPause ==
    (op = "analyze_rhythm" /\ \A k \in DOMAIN rr_intervals : rr_intervals[k] > 0) =>
        /\ raised = "none"
        /\ \A i \in 0..(Len(rr_intervals) - 1) :
              ~(HasEvent(ret, PREMATURE_BEAT, i) /\ HasEvent(ret, PAUSE, i))

\* a premature beat and its compensatory pause, on consecutive intervals
C27_Witness ==
    /\ Returned("analyze_rhythm")
    /\ \E i \in 0..(Len(rr_intervals) - 2) :
          /\ HasEvent(ret, PREMATURE_BEAT, i)
          /\ ~HasEvent(ret, PAUSE, i)
          /\ HasEvent(ret, PAUSE, i + 1)
          /\ ~HasEvent(ret, PREMATURE_BEAT, i + 1)

\* C25: in the pipeline segment_waveforms(window_size) -> generate_report,
\* every waveform receives the same classification, determined by window_size
\* alone and not by any sample value: all are NORMAL when window_size < 50 and
\* all are WIDE_QRS when window_size >= 50 (so with the default window_size of
\* 200, abnormal_waveforms == len(waveforms) and waveform_details never
\* contains an ST or T-wave kind).
C25_ClassificationByWindowSize ==
    (op = "generate_report" /\ raised = "none") =>
        LET details == report[1].waveform_details
            abnormal == report[1].abnormal_waveforms
        IN  /\ window_size < 50 =>
                  /\ abnormal = 0
                  /\ details = <<>>
            /\ window_size >= 50 =>
                  /\ abnormal = Len(waveforms)
                  /\ Len(details) = Len(waveforms)
                  /\ \A d \in DOMAIN details : details[d].type = WIDE_QRS
            /\ \A d \in DOMAIN details :
                  details[d].type \notin {ELEVATED_ST, DEPRESSED_ST, INVERTED_T}

\* the default window size on a signal with a negative T wave inside the window
C25_Witness ==
    /\ op = "generate_report"
    /\ raised = "none"
    /\ window_size = 200
    /\ Len(waveforms) = 1
    /\ Len(waveforms[1]) = 400
    /\ \E k \in DOMAIN waveforms[1] : waveforms[1][k] = -1
    /\ report[1].abnormal_waveforms = 1
    /\ report[1].waveform_details = <<[beat_number |-> 0, type |-> WIDE_QRS]>>

\* a window one sample short of 50: waveforms of 98 samples, all NORMAL
C25_WitnessShort ==
    /\ op = "generate_report"
    /\ raised = "none"
    /\ window_size = 49
    /\ Len(waveforms) = 2
    /\ \E k \in DOMAIN waveforms[2] : waveforms[2][k] = -1
    /\ report[1].abnormal_waveforms = 0

----------------------------------------------------------------------------
(* SessionManager (src/ekg_system/ekg_system/session_manager.py) *)

MaxSaves == 2
MaxClock == 3

\* the analysis core, untouched by the session manager
analysisVars == <<sampling_rate, rr_intervals, peaks, waveforms, detectorVars, processorVars,
                  fp_round>>

\* no analysis under way
AnalysisIdle ==
    /\ sampling_rate = 1000
    /\ tachycardia_threshold = DefaultTachycardiaThreshold
    /\ bradycardia_threshold = DefaultBradycardiaThreshold
    /\ rr_intervals = <<>>
    /\ peaks = <<>>
    /\ waveforms = <<>>
    /\ waveform = <<>>
    /\ peak_idx = 0
    /\ heart_rates = <<>>
    /\ fperr = {}
    /\ fp_round = {}
    /\ data = None
    /\ filtered_data = None
    /\ processor_peaks = None
    /\ heart_rate = None
    /\ window_size = 0
    /\ lowcut = 0
    /\ highcut = 0
    /\ report = None

\* clock ticks per second: strftime("%Y%m%d_%H%M%S") drops the fraction
TicksPerSecond == 2

\* timestamp = datetime.now().strftime("%Y%m%d_%H%M%S"): the whole seconds
Timestamp(t) == t \div TicksPerSecond

SessionNames == {"mouse_a", "mouse_b"}

\* a dict is the sequence of its (key, value) items in insertion order
EmptyDict == <<>>

HeartRateDict == <<<<"mean", 600>>, <<"std", 20>>, <<"min", 580>>, <<"max", 620>>>>

ReportDict == <<<<"total_beats", 4>>, <<"arrhythmias_detected", 1>>, <<"abnormal_waveforms", 0>>>>

\* the arguments of save_session after session_name; an argument left out is None
SessionArgs ==
    {[data |-> <<3, 1, 4>>, filtered_data |-> None, peaks |-> None,
      heart_rate |-> None, arrhythmia_report |-> None, metadata |-> None],
     [data |-> <<2, 7>>, filtered_data |-> None, peaks |-> Some(<<0, 1>>),
      heart_rate |-> Some(HeartRateDict), arrhythmia_report |-> None,
      metadata |-> Some(EmptyDict)],
     [data |-> <<1, 6, 1>>, filtered_data |-> Some(<<0, 5, 0>>), peaks |-> Some(<<1>>),
      heart_rate |-> Some(HeartRateDict), arrhythmia_report |-> Some(ReportDict),
      metadata |-> Some(<<<<"animal", 7>>>>)]}

\* session_file = self.sessions_dir / f"{session_name}_{timestamp}.pkl"
SessionFile(session_name, timestamp) == [session_name |-> session_name, timestamp |-> timestamp]

\* a slip: a mark of the save added to the metadata that was given
SessionData_RawMetadata(session_name, timestamp, args) ==
    [session_name |-> session_name,
     timestamp |-> timestamp,
     data |-> args.data,
     filtered_data |-> args.filtered_data,
     peaks |-> args.peaks,
     heart_rate |-> args.heart_rate,
     arrhythmia_report |-> args.arrhythmia_report,
     metadata |-> IF IsNone(args.metadata) THEN EmptyDict
                  ELSE ValueOf(args.metadata) \o <<<<"saved", 1>>>>]

\* session_data = {'session_name': ..., ..., 'metadata': metadata or {}}
SessionData(session_name, timestamp, args) ==
    [session_name |-> session_name,
     timestamp |-> timestamp,
     data |-> args.data,
     filtered_data |-> args.filtered_data,
     peaks |-> args.peaks,
     heart_rate |-> args.heart_rate,
     arrhythmia_report |-> args.arrhythmia_report,
     metadata |-> IF IsNone(args.metadata) \/ ValueOf(args.metadata) = EmptyDict
                  THEN EmptyDict
                  ELSE ValueOf(args.metadata)]

\* pickle.dump(session_data, f): the bytes written. An array is written as its
\* shape and its buffer, a dict as its keys and its values, None as None
PickleDump(session_data) ==
    LET DumpArray(a) == [shape |-> Len(a), buffer |-> a]
        DumpDict(d) == [keys |-> [k \in DOMAIN d |-> d[k][1]],
                        values |-> [k \in DOMAIN d |-> d[k][2]]]
        DumpOptional(o, Dump(_)) == IF IsNone(o) THEN None ELSE Some(Dump(ValueOf(o)))
    IN  [session_name |-> session_data.session_name,
         timestamp |-> session_data.timestamp,
         data |-> DumpArray(session_data.data),
         filtered_data |-> DumpOptional(session_data.filtered_data, DumpArray),
         peaks |-> DumpOptional(session_data.peaks, DumpArray),
         heart_rate |-> DumpOptional(session_data.heart_rate, DumpDict),
         arrhythmia_report |-> DumpOptional(session_data.arrhythmia_report, DumpDict),
         metadata |-> DumpDict(session_data.metadata)]

\* pickle.load(f): the object the bytes describe
PickleLoad(bytes) ==
    LET LoadArray(b) == SubSeq(b.buffer, 1, b.shape)
        LoadDict(b) == [k \in DOMAIN b.keys |-> <<b.keys[k], b.values[k]>>]
        LoadOptional(o, Load(_)) == IF IsNone(o) THEN None ELSE Some(Load(ValueOf(o)))
    IN  [session_name |-> bytes.session_name,
         timestamp |-> bytes.timestamp,
         data |-> LoadArray(bytes.data),
         filtered_data |-> LoadOptional(bytes.filtered_data, LoadArray),
         peaks |-> LoadOptional(bytes.peaks, LoadArray),
         heart_rate |-> LoadOptional(bytes.heart_rate, LoadDict),
         arrhythmia_report |-> LoadOptional(bytes.arrhythmia_report, LoadDict),
         metadata |-> LoadDict(bytes.metadata)]

\* the paths of the directory
PathsOf(dir) == {f.path : f \in dir}

\* open(session_file, 'wb') and the dump: the file is created or replaced
WriteFile(dir, path, content) ==
    {f \in dir : f.path # path} \cup {[path |-> path, content |-> content]}

\* [str(s) for s in sorted(sessions, reverse=True)]: by name, then by timestamp
RECURSIVE SortedReverse(_)
SortedReverse(P) ==
    LET NameRank(name) == IF name = "mouse_a" THEN 1 ELSE 2
        PathBefore(p, q) ==
            \/ NameRank(p.session_name) < NameRank(q.session_name)
            \/ (p.session_name = q.session_name /\ p.timestamp < q.timestamp)
    IN  IF P = {} THEN <<>>
        ELSE LET last == CHOOSE p \in P : \A q \in P \ {p} : PathBefore(q, p)
             IN  <<last>> \o SortedReverse(P \ {last})

\* the caller's record once the file at path is replaced or removed
Superseded(log, path) ==
    [k \in DOMAIN log |-> IF log[k].path = path THEN [log[k] EXCEPT !.intact = FALSE]
                          ELSE log[k]]

\* every object as constructed, nothing called yet
InitIdle ==
    /\ AnalysisIdle
    /\ PeripheralsIdle
    /\ op = "none"
    /\ ret = NoValue
    /\ raised = "none"

\* save_session(session_name, data, ...)
SaveSession ==
    \E session_name \in SessionNames, args \in SessionArgs :
        LET timestamp == Timestamp(clock)
            path == SessionFile(session_name, timestamp)
        IN  /\ Len(saves) < MaxSaves
            /\ files' = WriteFile(files, path,
                                  PickleDump(SessionData(session_name, timestamp, args)))
            /\ saves' = Append(Superseded(saves, path),
                               [path |-> path, session_name |-> session_name,
                                args |-> args, intact |-> TRUE])
            /\ session_file' = Some(path)
            /\ op' = "save_session"
            /\ ret' = "session_file"
            /\ raised' = "none"
            /\ loaded' = None
            /\ listing' = <<>>
            /\ UNCHANGED <<clock, deleted>>
            /\ UNCHANGED <<analysisVars, streamVars, liveVars>>

\* load_session(session_file), for a path save_session returned
LoadSession ==
    \E path \in {saves[k].path : k \in DOMAIN saves} :
        /\ op' = "load_session"
        /\ session_file' = Some(path)
        /\ raised' = IF path \in PathsOf(files) THEN "none" ELSE "FileNotFoundError"
        /\ loaded' = IF raised' = "none" THEN Some(PickleLoad((CHOOSE f \in files : f.path = path).content))
                     ELSE None
        /\ ret' = IF raised' = "none" THEN "session_data" ELSE NoValue
        /\ listing' = <<>>
        /\ UNCHANGED <<clock, files, saves, deleted>>
        /\ UNCHANGED <<analysisVars, streamVars, liveVars>>

\* list_sessions()
ListSessions ==
    /\ op' = "list_sessions"
    /\ listing' = SortedReverse(PathsOf(files))
    /\ ret' = "sessions"
    /\ raised' = "none"
    /\ session_file' = None
    /\ loaded' = None
    /\ UNCHANGED <<clock, files, saves, deleted>>
    /\ UNCHANGED <<analysisVars, streamVars, liveVars>>

\* delete_session(session_file), for a path save_session returned
DeleteSession ==
    \E path \in {saves[k].path : k \in DOMAIN saves} :
        /\ op' = "delete_session"
        /\ session_file' = Some(path)
        /\ deleted' = TRUE
        /\ raised' = IF path \in PathsOf(files) THEN "none" ELSE "FileNotFoundError"
        /\ files' = {f \in files : f.path # path}
        /\ saves' = Superseded(saves, path)
        /\ ret' = NoValue
        /\ loaded' = None
        /\ listing' = <<>>
        /\ UNCHANGED clock
        /\ UNCHANGED <<analysisVars, streamVars, liveVars>>

\* time passes
Tick ==
    /\ clock < MaxClock
    /\ clock' = clock + 1
    /\ UNCHANGED <<files, saves, deleted, session_file, loaded, listing>>
    /\ UNCHANGED <<op, ret, raised>>
    /\ UNCHANGED <<analysisVars, streamVars, liveVars>>

NextSession ==
    \/ SaveSession
    \/ LoadSession
    \/ ListSessions
    \/ DeleteSession
    \/ Tick

SpecSession == InitIdle /\ [][NextSession]_vars

\* C21: session save/load round-trips: for every save_session(name, data,
\* filtered_data, peaks, heart_rate, arrhythmia_report, metadata), load_session
\* on the returned path yields a record whose session_name, data,
\* filtered_data, peaks, heart_rate and arrhythmia_report equal the saved
\* arguments (metadata equals the argument, or {} when none was given), as long
\* as the session was not deleted or overwritten in between.
C21_RoundTrip ==
    op = "load_session" =>
        \A k \in DOMAIN saves :
            (saves[k].path = session_file[1] /\ saves[k].intact) =>
                /\ raised = "none"
                /\ loaded # None
                /\ loaded[1].session_name = saves[k].session_name
                /\ loaded[1].data = saves[k].args.data
                /\ loaded[1].filtered_data = saves[k].args.filtered_data
                /\ loaded[1].peaks = saves[k].args.peaks
                /\ loaded[1].heart_rate = saves[k].args.heart_rate
                /\ loaded[1].arrhythmia_report = saves[k].args.arrhythmia_report
                /\ loaded[1].metadata = IF IsNone(saves[k].args.metadata) THEN EmptyDict
                                        ELSE ValueOf(saves[k].args.metadata)

\* the first of two sessions, loaded after the second was saved and a third
\* path was deleted or not: every optional argument given
C21_Witness ==
    /\ op = "load_session"
    /\ raised = "none"
    /\ Len(saves) = 2
    /\ saves[1].path = session_file[1]
    /\ saves[1].intact
    /\ saves[2].path # saves[1].path
    /\ loaded[1].peaks = Some(<<1>>)
    /\ loaded[1].heart_rate = Some(HeartRateDict)
    /\ loaded[1].metadata = <<<<"animal", 7>>>>

\* no metadata given: {} is loaded
C21_WitnessNoMetadata ==
    /\ op = "load_session"
    /\ raised = "none"
    /\ \E k \in DOMAIN saves :
          /\ saves[k].path = session_file[1]
          /\ saves[k].intact
          /\ IsNone(saves[k].args.metadata)
    /\ loaded[1].metadata = EmptyDict

\* C22 as claimed: every save_session call adds a new session: after n
\* save_session calls and no delete_session call on a SessionManager with an
\* initially empty directory, list_sessions returns at least n entries (no
\* save overwrites an earlier session), including when two saves use the same
\* session_name.
C22_EverySaveAdds ==
    (op = "list_sessions" /\ ~deleted) => Len(listing) >= Len(saves)

----------------------------------------------------------------------------
(* MicrocontrollerInterface (src/ekg_system/microcontroller.py): the caller's
   thread and the stream_worker threads, one step per shared read or write *)

MaxWorkers == 2
MaxBuffer == 2
MaxDuration == 2

\* self.stream_thread.join(timeout=2)
JoinTimeout == 2

\* the values the device sends
Samples == {512, 530}

\* the workers that have not returned or died
Alive == {w \in DOMAIN workers : workers[w].pc \notin {"done", "dead"}}

\* connect(): the port opens or serial.Serial raises SerialException
Connect ==
    \E opened \in BOOLEAN :
        /\ caller_pc = "idle"
        /\ is_connected' = opened
        /\ op' = "connect"
        /\ ret' = IF opened THEN "True" ELSE "False"
        /\ raised' = "none"
        /\ UNCHANGED <<is_streaming, buffer, stream_thread, workers, caller_pc, join_elapsed>>
        /\ UNCHANGED <<analysisVars, sessionVars, liveVars>>

\* start_streaming(duration=duration) on the caller's thread, lines 62-90
StartStreaming ==
    \* the duration argument in seconds; 0 stands for None (both are falsy at line 76)
    \E duration \in 0..MaxDuration :
        /\ caller_pc = "idle"
        /\ (is_connected /\ ~is_streaming) => Len(workers) < MaxWorkers
        /\ op' = "start_streaming"
        /\ ret' = NoValue
        /\ raised' = IF is_connected THEN "none" ELSE "ConnectionError"
        /\ IF is_connected /\ ~is_streaming
           THEN /\ is_streaming' = TRUE
                /\ buffer' = <<>>
                /\ workers' = Append(workers, [pc |-> "start", duration |-> duration,
                                               elapsed |-> 0])
                /\ stream_thread' = Some(Len(workers) + 1)
           ELSE UNCHANGED <<is_streaming, buffer, stream_thread, workers>>
        /\ UNCHANGED <<is_connected, caller_pc, join_elapsed>>
        /\ UNCHANGED <<analysisVars, sessionVars, liveVars>>

\* stop_streaming() up to the join (lines 94-97), or through to its return
\* when nothing is streaming; disconnect() begins with the same call
StopStreaming ==
    \E call \in {"stop_streaming", "disconnect"} :
        /\ caller_pc = "idle"
        /\ op' = call
        /\ raised' = "none"
        /\ is_streaming' = FALSE
        /\ IF is_streaming /\ stream_thread # None
           THEN /\ caller_pc' = call
                /\ join_elapsed' = 0
                /\ ret' = NoValue
                /\ UNCHANGED is_connected
           ELSE /\ ret' = IF call = "stop_streaming" THEN "buffer" ELSE NoValue
                /\ is_connected' = IF call = "disconnect" THEN FALSE ELSE is_connected
                /\ UNCHANGED <<caller_pc, join_elapsed>>
        /\ UNCHANGED <<buffer, stream_thread, workers>>
        /\ UNCHANGED <<analysisVars, sessionVars, liveVars>>

\* join(timeout=2) returns: the thread has ended, or the timeout has passed;
\* stop_streaming returns the buffer, disconnect goes on to close the port
JoinReturns ==
    /\ caller_pc # "idle"
    /\ \/ stream_thread[1] \notin Alive
       \/ join_elapsed >= JoinTimeout
    /\ caller_pc' = "idle"
    /\ join_elapsed' = 0
    /\ ret' = IF caller_pc = "stop_streaming" THEN "buffer" ELSE NoValue
    /\ is_connected' = IF caller_pc = "disconnect" THEN FALSE ELSE is_connected
    /\ UNCHANGED <<op, raised, is_streaming, buffer, stream_thread, workers>>
    /\ UNCHANGED <<analysisVars, sessionVars, liveVars>>

\* clear_buffer() on the caller's thread, lines 106-108: a new empty list,
\* whether or not a stream is running
ClearBuffer ==
    /\ caller_pc = "idle"
    /\ op' = "clear_buffer"
    /\ ret' = NoValue
    /\ raised' = "none"
    /\ buffer' = <<>>
    /\ UNCHANGED <<is_connected, is_streaming, stream_thread, workers, caller_pc,
                   join_elapsed>>
    /\ UNCHANGED <<analysisVars, sessionVars, liveVars>>

\* one step of stream_worker number w (lines 72-85), read_sample included: the
\* test of is_connected (line 48) and the wait in readline (line 52) are two
\* steps, and what readline returns is appended in the step that returns it
WorkerStep(w) ==
    /\ w \in Alive
    /\ \/ /\ workers[w].pc = "start"                    \* start_time = time.time()
          /\ workers' = [workers EXCEPT ![w].pc = "test", ![w].elapsed = 0]
          /\ UNCHANGED <<is_streaming, buffer>>
       \/ /\ workers[w].pc = "test"                     \* the while and the duration tests
          /\ workers' = [workers EXCEPT ![w].pc =
                            IF ~is_streaming THEN "exit"
                            ELSE IF workers[w].duration # 0
                                    /\ workers[w].elapsed >= workers[w].duration
                                 THEN "exit"
                                 ELSE "read"]
          /\ UNCHANGED <<is_streaming, buffer>>
       \/ /\ workers[w].pc = "read"                     \* read_sample: if not self.is_connected
          /\ workers' = [workers EXCEPT ![w].pc =
                            IF is_connected THEN "readline" ELSE "dead"]
          /\ UNCHANGED <<is_streaming, buffer>>
       \/ /\ workers[w].pc = "readline"                 \* readline raises SerialException
          /\ workers' = [workers EXCEPT ![w].pc = "dead"]
          /\ UNCHANGED <<is_streaming, buffer>>
       \/ /\ workers[w].pc = "readline"                 \* an empty or a malformed line: None
          /\ workers' = [workers EXCEPT ![w].pc = "test"]
          /\ UNCHANGED <<is_streaming, buffer>>
       \/ /\ workers[w].pc = "readline"                 \* a number: self.buffer.append(sample)
          /\ Len(buffer) < MaxBuffer
          /\ \E sample \in Samples : buffer' = Append(buffer, sample)
          /\ workers' = [workers EXCEPT ![w].pc = "test"]
          /\ UNCHANGED is_streaming
       \/ /\ workers[w].pc = "exit"                     \* self.is_streaming = False
          /\ is_streaming' = FALSE
          /\ workers' = [workers EXCEPT ![w].pc = "done"]
          /\ UNCHANGED buffer
    /\ UNCHANGED <<op, ret, raised, is_connected, stream_thread, caller_pc, join_elapsed>>
    /\ UNCHANGED <<analysisVars, sessionVars, liveVars>>

\* a second passes: time.time() advances for the workers, and for the join
Elapse ==
    /\ \/ \E w \in Alive : workers[w].elapsed < MaxDuration
       \/ (caller_pc # "idle" /\ join_elapsed < JoinTimeout)
    /\ workers' = [w \in DOMAIN workers |->
                      IF w \in Alive /\ workers[w].pc # "start"
                         /\ workers[w].elapsed < MaxDuration
                      THEN [workers[w] EXCEPT !.elapsed = @ + 1]
                      ELSE workers[w]]
    /\ join_elapsed' = IF caller_pc # "idle" /\ join_elapsed < JoinTimeout
                       THEN join_elapsed + 1 ELSE join_elapsed
    /\ UNCHANGED <<op, ret, raised, is_connected, is_streaming, buffer, stream_thread,
                   caller_pc>>
    /\ UNCHANGED <<analysisVars, sessionVars, liveVars>>

NextStream ==
    \/ Connect
    \/ StartStreaming
    \/ StopStreaming
    \/ JoinReturns
    \/ ClearBuffer
    \/ \E w \in 1..MaxWorkers : WorkerStep(w)
    \/ Elapse

\* every thread that can run does run, time passes, and a join returns; the
\* caller's calls are the caller's choice
SpecStream ==
    /\ InitIdle
    /\ [][NextStream]_vars
    /\ \A w \in 1..MaxWorkers : WF_vars(WorkerStep(w))
    /\ WF_vars(Elapse)
    /\ WF_vars(JoinReturns)

\* C28 as claimed: a stream started with start_streaming(duration=d) for a
\* finite d > 0 eventually ends on its own: is_streaming eventually becomes
\* False without any stop_streaming call, including when read_sample fails
\* inside the worker thread.
C28_StreamEnds ==
    (/\ is_streaming
     /\ stream_thread # None
     /\ workers[stream_thread[1]].duration > 0) ~> ~is_streaming

\* C29 as claimed: at most one stream worker appends to the buffer at any
\* time: start_streaming while is_streaming is True starts no second worker
\* and does not clear the buffer, and under any interleaving of
\* start_streaming, stop_streaming and the worker's own termination no two
\* workers are inside read_sample, reading a sample to append, together.
C29_SingleWorker ==
    /\ [][(StartStreaming /\ is_streaming) => (workers' = workers /\ buffer' = buffer)]_vars
    /\ [](Cardinality({w \in DOMAIN workers : workers[w].pc \in {"read", "readline"}}) <= 1)

----------------------------------------------------------------------------
(* LivePGView (src/ekg_system/live_pg_view.py); the MSP430Interface it drives
   is the environment: detect_port finds a port or none, start returns or
   raises, stop returns, and on_serial_line is called with a line at any time *)

MaxStartFailures == 1

\* start_hardware(): mcu.start returns (started) or raises
start_hardware(started) ==
    /\ collecting' = started
    /\ status' = IF started THEN "Collecting data" ELSE "Waiting for device"
    /\ start_failures' = IF started THEN start_failures ELSE start_failures + 1

\* stop_hardware(): mcu.stop() if collecting
stop_hardware ==
    /\ collecting' = FALSE
    /\ status' = "Collection stopped"
    /\ UNCHANGED start_failures

\* check_device(), on the detect_timer every 1000 ms
CheckDevice ==
    \E port \in {None, Some("COM3")}, started \in BOOLEAN :
        /\ (~started) => start_failures < MaxStartFailures
        /\ IF ~device_connected /\ port # None
           THEN /\ device_connected' = TRUE
                /\ IF want_collecting /\ ~collecting
                   THEN start_hardware(started)
                   ELSE /\ status' = "MSP430 detected"
                        /\ UNCHANGED <<collecting, start_failures>>
           ELSE UNCHANGED <<device_connected, collecting, status, start_failures>>
        /\ UNCHANGED <<want_collecting, button, view_buffer>>
        /\ UNCHANGED <<op, ret, raised>>
        /\ UNCHANGED <<analysisVars, sessionVars, streamVars>>

\* toggle_collection(): the button is pressed
ToggleCollection ==
    \E started \in BOOLEAN :
        /\ (~started) => start_failures < MaxStartFailures
        /\ want_collecting' = ~want_collecting
        /\ IF want_collecting'
           THEN /\ button' = "Stop Collecting"
                /\ IF device_connected
                   THEN start_hardware(started)
                   ELSE /\ status' = "Waiting for device"
                        /\ UNCHANGED <<collecting, start_failures>>
           ELSE /\ button' = "Start Collecting"
                /\ stop_hardware
        /\ UNCHANGED <<device_connected, view_buffer>>
        /\ UNCHANGED <<op, ret, raised>>
        /\ UNCHANGED <<analysisVars, sessionVars, streamVars>>

\* on_serial_line(line): the line is "value" or "timestamp,value"; one that is
\* no number is ignored.  The method tests neither collecting nor
\* device_connected: a line is stored whenever it arrives
OnSerialLine ==
    \E line \in {<<"1">>, <<"17", "2">>, <<"3">>, <<"x">>, <<"3", "">>} :
        LET field == line[Len(line)]
            value == CASE field = "1" -> Some(1)
                       [] field = "2" -> Some(2)
                       [] field = "3" -> Some(3)
                       [] OTHER -> None
        IN  /\ view_buffer' = IF value = None THEN view_buffer
                              ELSE [k \in 1..PlotSamples |->
                                       IF k < PlotSamples THEN view_buffer[k + 1]
                                       ELSE value[1]]
            /\ UNCHANGED <<device_connected, collecting, want_collecting, status, button,
                           start_failures>>
            /\ UNCHANGED <<op, ret, raised>>
            /\ UNCHANGED <<analysisVars, sessionVars, streamVars>>

\* stop(): the live view is left
StopView ==
    /\ want_collecting' = FALSE
    /\ stop_hardware
    /\ button' = "Start Collecting"
    /\ UNCHANGED <<device_connected, view_buffer>>
    /\ UNCHANGED <<op, ret, raised>>
    /\ UNCHANGED <<analysisVars, sessionVars, streamVars>>

NextLive ==
    \/ CheckDevice
    \/ ToggleCollection
    \/ OnSerialLine
    \/ StopView

\* the detect timer keeps firing; pressing the button is the user's choice
SpecLive == InitIdle /\ [][NextLive]_vars /\ WF_vars(CheckDevice)

\* C30 as claimed: in LivePGView collection auto-starts once the user has
\* asked for it: from any state where want_collecting is true and the device
\* has been detected, collecting eventually becomes true without a further
\* button press (unless the user withdraws the request), including after an
\* attempt to start the hardware has failed once; and collecting is never
\* true while want_collecting is false.
C30_AutoStart ==
    /\ (want_collecting /\ device_connected) ~> (collecting \/ ~want_collecting)
    /\ [](collecting => want_collecting)

====
